---- MODULE Spec2Model ----
(***************************************************************************)
(* A model of the dashboard's data-transformation and scale pipeline:      *)
(* js/utils/dataTransformers.js, js/utils/auditHelpers.js (and its         *)
(* amount-based variant) and the linear scale of js/utils/svgHelpers.js.   *)
(*                                                                         *)
(* JavaScript numbers are modelled exactly: a value is a record            *)
(* [k, n, d] where k is the kind ("num", "NaN", "inf", "ninf",             *)
(* "undefined", "null", "date", "array") and n/d is the rational value of  *)
(* a "num" in lowest terms with d > 0 (n is the epoch time of a "date" and *)
(* the length of an "array").                                              *)
(***************************************************************************)
EXTENDS Integers, Sequences, FiniteSets, TLC

\* ------------------------------------------------------------------ bounds
MaxLen == 3          \* longest transaction list fetched
MaxTime == 2         \* latest createdAt, in clock ticks since the epoch
TicksPerDay == 2     \* clock ticks per calendar day
MaxSkillLen == 2     \* longest list given to the skill percentages
MaxAudits == 2       \* longest auditsDone / auditsReceived list fetched
MaxMalformed == 2    \* longest list of records with missing fields
MaxCoord == 2        \* domain ends and values lie in 5 * (-MaxCoord..MaxCoord)
MaxPixel == 2        \* range ends lie in 50 * (0..MaxPixel)
DaysPerMonth == 2    \* calendar days per month
MaxCount == 8        \* passed and failed counts lie in 0..MaxCount, or are many
ManyResults == 1000  \* a count large enough for a share of 99.9% beside 1
MaxExtentLen == 3    \* longest array given to d3ArrayExtent
MaxBars == 2         \* largest maxBars option given besides the default
MaxRadarLen == 4     \* longest list of user skills given to the radar
MonthsAudited == 6   \* months of the longest audit history drawn
MaxComponents == 2   \* profile components rendered in one session
MaxLoads == 2        \* calls of fetchProfileData in flight at once
MaxLogins == 2       \* signin requests in flight at once
MaxRetries == 2      \* clicks on a retry button in one session
MaxRedirects == 2    \* redirects followed after one visit
MaxQueued == 2       \* hashchange events waiting at once

\* ------------------------------------------------------- program constants
RecentAudits == 5       \* slice(0, 5): the audits counted as recent
RatioNormalizer == 1000 \* doneAmount / 1000 when nothing was received

VARIABLES
  applied,        \* the transforms that have run on the fetched snapshot
  tz,             \* the browser's local-time offset, in ticks
  transactions,   \* xpData.transaction as fetched
  xpData,         \* state.xpData
  userSkills,     \* state.user.skills as fetched
  skillsData,     \* state.skillsData
  now,            \* the wall clock read by new Date()
  auditReply,     \* the reply to the audits query
  auditData,      \* state.auditData (dataTransformers.js)
  auditSummary,   \* the summary of the amount-based auditHelpers variant
  domainArg,      \* the domain given to d3ScaleLinear
  rangeArg,       \* the range given to d3ScaleLinear
  scale,          \* the scale function's closure
  value,          \* the last value given to the scale
  pixel,          \* what the scale returned for it
  donutData,      \* the data given to createDonutChart
  donut,          \* the donut chart it built
  extentArg,      \* the accessor's values of the array given to d3ArrayExtent
  extent,         \* the extent it returned
  lineChart,      \* what renderProfile put into #xp-line-chart
  barChart,       \* what was put into #xp-bar-chart
  lineSeries,     \* the line points built with given scales
  radar,          \* what renderProfile put into #skills-radar-chart
  results,        \* resultsData.result as fetched
  projectResults, \* state.projectResults
  auditDataAgain, \* what a later call of transformAuditData returned
  ratioChart,     \* what renderProfile put into #audit-ratio-chart
  comparisonChart, \* what was put into #audit-comparison-chart
  started,        \* initApp has run
  hash,           \* window.location.hash
  hashChanges,    \* hashchange events queued and not yet handled
  redirects,      \* navigateTo calls of handleRoute since the last visit
  appState,       \* the state of app.js
  localStorage,   \* what localStorage holds under auth_token
  appView,        \* what the #app container shows
  loginButton,    \* the submit button of the login form shown
  logins,         \* signin requests in flight, of the form shown and of older ones
  components,     \* the profile components created, the last one attached
  listeners,      \* the reload-profile listeners registered on document
  loads,          \* the calls of fetchProfileData that have not returned
  profileState,   \* the state of profile.js
  retries         \* clicks on a retry button

auditVars == <<now, auditReply, auditData, auditSummary>>

scaleVars == <<domainArg, rangeArg, scale, value, pixel>>

donutVars == <<donutData, donut>>

extentVars == <<extentArg, extent>>

xpChartVars == <<lineChart, barChart, lineSeries>>

chartVars == <<donutVars, extentVars, xpChartVars, radar>>

\* the variables of the data transforms and of the scale
projectVars == <<results, projectResults>>

dataVars == <<applied, tz, transactions, xpData, userSkills, skillsData,
              auditVars, scaleVars, projectVars>>

\* what the application holds besides one snapshot and its charts
auditChartVars == <<ratioChart, comparisonChart>>

routeVars == <<started, hash, hashChanges, redirects, appView>>

authVars == <<appState, localStorage, loginButton, logins>>

loadVars == <<components, listeners, loads, profileState, retries>>

appVars == <<auditDataAgain, auditChartVars, routeVars, authVars, loadVars>>

vars == <<dataVars, chartVars, appVars>>

\* ------------------------------------------------------- JavaScript values
Abs(x) == IF x < 0 THEN -x ELSE x

RECURSIVE GCD(_, _)
GCD(a, b) == IF b = 0 THEN a ELSE GCD(b, a % b)

Num(i) == [k |-> "num", n |-> i, d |-> 1]
NaN == [k |-> "NaN", n |-> 0, d |-> 1]
Undefined == [k |-> "undefined", n |-> 0, d |-> 1]
Null == [k |-> "null", n |-> 0, d |-> 1]
PosInf == [k |-> "inf", n |-> 0, d |-> 1]
NegInf == [k |-> "ninf", n |-> 0, d |-> 1]

\* the number n/d (d # 0) in lowest terms
Rat(n, d) ==
  LET g == GCD(Abs(n), Abs(d))
      s == IF d < 0 THEN -1 ELSE 1
  IN [k |-> "num", n |-> (s * n) \div g, d |-> (s * d) \div g]

IsNum(a) == a.k = "num"

\* a finite number: what typeof/isFinite accept
IsFinite(a) == a.k = "num"

\* ToNumber: undefined -> NaN, null -> 0, a Date -> its time, [] -> 0,
\* an array of objects -> NaN
ToNumber(a) ==
  CASE a.k = "undefined" -> NaN
    [] a.k = "null" -> Num(0)
    [] a.k = "date" -> Num(a.n)
    [] a.k = "array" -> IF a.n = 0 THEN Num(0) ELSE NaN
    [] OTHER -> a

Sign(a) == IF a.k = "inf" THEN 1 ELSE IF a.k = "ninf" THEN -1
           ELSE IF a.n > 0 THEN 1 ELSE IF a.n < 0 THEN -1 ELSE 0

JsNeg(a) ==
  CASE a.k = "num" -> [a EXCEPT !.n = -a.n]
    [] a.k = "inf" -> NegInf
    [] a.k = "ninf" -> PosInf
    [] OTHER -> NaN

\* x + y on numbers (a non-number operand is converted first)
JsAdd(x, y) ==
  LET a == ToNumber(x)
      b == ToNumber(y)
  IN CASE a.k = "NaN" \/ b.k = "NaN" -> NaN
       [] a.k = "num" /\ b.k = "num" -> Rat(a.n * b.d + b.n * a.d, a.d * b.d)
       [] a.k = "num" -> b
       [] b.k = "num" -> a
       [] a.k = b.k -> a
       [] OTHER -> NaN

JsSub(x, y) == JsAdd(x, JsNeg(ToNumber(y)))

JsMul(x, y) ==
  LET a == ToNumber(x)
      b == ToNumber(y)
  IN CASE a.k = "NaN" \/ b.k = "NaN" -> NaN
       [] a.k = "num" /\ b.k = "num" -> Rat(a.n * b.n, a.d * b.d)
       [] Sign(a) * Sign(b) = 0 -> NaN
       [] Sign(a) * Sign(b) > 0 -> PosInf
       [] OTHER -> NegInf

JsDiv(x, y) ==
  LET a == ToNumber(x)
      b == ToNumber(y)
  IN CASE a.k = "NaN" \/ b.k = "NaN" -> NaN
       [] a.k = "num" /\ b.k = "num" ->
            IF b.n # 0 THEN Rat(a.n * b.d, a.d * b.n)
            ELSE IF a.n = 0 THEN NaN
            ELSE IF a.n > 0 THEN PosInf ELSE NegInf
       [] a.k = "num" -> Num(0)
       [] b.k = "num" -> IF Sign(a) * (IF b.n < 0 THEN -1 ELSE 1) > 0
                         THEN PosInf ELSE NegInf
       [] OTHER -> NaN

\* x < y, x >= y: false whenever an operand converts to NaN
JsLT(x, y) ==
  LET a == ToNumber(x)
      b == ToNumber(y)
  IN /\ a.k # "NaN" /\ b.k # "NaN"
     /\ CASE a.k = "num" /\ b.k = "num" -> a.n * b.d < b.n * a.d
          [] a.k = "ninf" -> b.k # "ninf"
          [] b.k = "inf" -> a.k # "inf"
          [] OTHER -> FALSE

JsGE(x, y) ==
  LET a == ToNumber(x)
      b == ToNumber(y)
  IN a.k # "NaN" /\ b.k # "NaN" /\ ~JsLT(a, b)

\* truthiness of a number-like value
Truthy(a) ==
  CASE a.k = "num" -> a.n # 0
    [] a.k \in {"NaN", "undefined", "null"} -> FALSE
    [] OTHER -> TRUE

\* x || y
JsOr(x, y) == IF Truthy(x) THEN x ELSE y

\* ------------------------------------------------------------------ records
\* record.object: an absent object and an object without name and type read
\* the same through object?.name and object?.type, and are both NoObject
NoObject == [name |-> "", type |-> ""]

\* s || fallback on strings: the empty (or missing) string is falsy
StrOr(s, fallback) == IF s = "" THEN fallback ELSE s

\* a day key that keeps the time of day
ToLocaleDateStringWithTime(createdAt) == createdAt + tz

\* new Date(createdAt).toLocaleDateString('en-US'): the local calendar day
ToLocaleDateString(createdAt) == (createdAt + tz) \div TicksPerDay

\* index of the entry of map m (a sequence in insertion order) under key, or 0
IndexOfKey(m, key) ==
  IF \E i \in 1..Len(m) : m[i].key = key
  THEN CHOOSE i \in 1..Len(m) : m[i].key = key
  ELSE 0

\* array.sort((a, b) => key(a) - key(b)): a stable sort. keys[i] is the key of
\* s[i]; the result lists the indices of s in sorted order, each index put
\* after the last one it does not precede (a NaN difference precedes nothing;
\* with NaN keys the engine's order is implementation-defined, and no claim
\* checked here reads the order of such a result)
RECURSIVE InsertIndex(_, _, _)
InsertIndex(keys, x, order) ==
  IF order = <<>> THEN <<x>>
  ELSE IF JsLT(JsSub(keys[x], keys[Head(order)]), Num(0)) THEN <<x>> \o order
  ELSE <<Head(order)>> \o InsertIndex(keys, x, Tail(order))

RECURSIVE SortOrder(_, _)
SortOrder(keys, n) ==
  IF n = 0 THEN <<>> ELSE InsertIndex(keys, n, SortOrder(keys, n - 1))

SortByKey(s, keys) ==
  LET order == SortOrder(keys, Len(s)) IN [i \in 1..Len(s) |-> s[order[i]]]

\* ------------------------------------------- dataTransformers.js: XP data
\* reduce((sum, item) => sum + item.amount, sum0)
RECURSIVE ReduceAmount(_, _)
ReduceAmount(s, sum) ==
  IF s = <<>> THEN sum
  ELSE ReduceAmount(Tail(s), JsAdd(sum, Head(s).amount))

\* dateMap after the forEach over s: one entry per toLocaleDateString key, in
\* insertion order; an entry keeps the Date of the first transaction of its
\* day and adds up the amounts
RECURSIVE DateMap(_, _)
DateMap(s, m) ==
  IF s = <<>> THEN m
  ELSE LET t == Head(s)
           date == ToLocaleDateString(t.createdAt)
           i == IndexOfKey(m, date)
           m1 == IF i = 0
                 THEN Append(m, [key |-> date, date |-> t.createdAt, amount |-> Num(0)])
                 ELSE m
           j == IF i = 0 THEN Len(m1) ELSE i
       IN DateMap(Tail(s), [m1 EXCEPT ![j].amount = JsAdd(@, t.amount)])

\* the comparator with its operands swapped: b.date - a.date
DateDescending(a) == Num(-a.date)

\* the sort key of (a, b) => a.date - b.date
DateAscending(a) == Num(a.date)

\* the slice taken one entry short
CumulativeAmountBefore(array, index) ==
  ReduceAmount(SubSeq(array, 1, index - 1), Num(0))

\* array.slice(0, index + 1).reduce((sum, entry) => sum + entry.amount, 0),
\* index counted from 1 here
CumulativeAmount(array, index) == ReduceAmount(SubSeq(array, 1, index), Num(0))

ByDate(trans) ==
  LET m == DateMap(trans, <<>>)
      array == SortByKey(m, [i \in 1..Len(m) |-> DateAscending(m[i])])
  IN [index \in 1..Len(array) |->
        [date |-> array[index].date,
         amount |-> array[index].amount,
         cumulativeAmount |-> CumulativeAmount(array, index)]]

\* projectMap after the forEach over s
RECURSIVE ProjectMap(_, _)
ProjectMap(s, m) ==
  IF s = <<>> THEN m
  ELSE LET t == Head(s)
           projectName == StrOr(t.object.name, "Unknown")
           i == IndexOfKey(m, projectName)
           m1 == IF i = 0
                 THEN Append(m, [key |-> projectName, project |-> projectName,
                                 amount |-> Num(0),
                                 type |-> StrOr(t.object.type, "unknown")])
                 ELSE m
           j == IF i = 0 THEN Len(m1) ELSE i
       IN ProjectMap(Tail(s), [m1 EXCEPT ![j].amount = JsAdd(@, t.amount)])

\* the sort key of the comparator with its operands swapped
AmountAscending(a) == ToNumber(a.amount)

\* the sort key of (a, b) => b.amount - a.amount
AmountDescending(a) == JsNeg(ToNumber(a.amount))

ByProject(trans) ==
  LET m == ProjectMap(trans, <<>>)
      array == SortByKey(m, [i \in 1..Len(m) |-> AmountDescending(m[i])])
  IN [i \in 1..Len(array) |->
        [project |-> array[i].project, amount |-> array[i].amount,
         type |-> array[i].type]]

transformXpData(trans) ==
  IF Len(trans) = 0
  THEN [total |-> Num(0), byDate |-> <<>>, byProject |-> <<>>]
  ELSE [total |-> ReduceAmount(trans, Num(0)),
        byDate |-> ByDate(trans),
        byProject |-> ByProject(trans)]

\* ---------------------------------------- dataTransformers.js: skills data
RECURSIVE SkillsMap(_, _)
SkillsMap(s, m) ==
  IF s = <<>> THEN m
  ELSE LET t == Head(s)
           type == StrOr(t.object.type, "unknown")
           i == IndexOfKey(m, type)
           m1 == IF i = 0
                 THEN Append(m, [key |-> type, skill |-> type, xp |-> Num(0)])
                 ELSE m
           j == IF i = 0 THEN Len(m1) ELSE i
       IN SkillsMap(Tail(s), [m1 EXCEPT ![j].xp = JsAdd(@, t.amount)])

\* reduce((sum, skill) => sum + skill.xp, 0)
RECURSIVE ReduceXp(_, _)
ReduceXp(s, sum) ==
  IF s = <<>> THEN sum ELSE ReduceXp(Tail(s), JsAdd(sum, Head(s).xp))

\* (part / total) * 100
Percentage(part, total) == JsMul(JsDiv(part, total), Num(100))

\* the sort key of (a, b) => b.xp - a.xp
XpDescending(a) == JsNeg(ToNumber(a.xp))

transformSkillsData(trans) ==
  IF Len(trans) = 0 THEN <<>>
  ELSE LET m == SkillsMap(trans, <<>>)
           totalXP == ReduceXp(m, Num(0))
           skills == [i \in 1..Len(m) |->
                        [skill |-> m[i].skill, xp |-> m[i].xp,
                         percentage |-> Percentage(m[i].xp, totalXP)]]
       IN SortByKey(skills, [i \in 1..Len(skills) |-> XpDescending(skills[i])])

\* ------------------------------- profile.js: fetchProfileData, skills part
\* skill.type.replace('skill_', '')
SkillName(type) ==
  CASE type = "skill_go" -> "go"
    [] type = "skill_js" -> "js"
    [] type = "skill_algo" -> "algo"
    [] OTHER -> type

\* the skills of the user query with their share of the total skill amount
UserSkillsData(skills) ==
  LET totalSkillAmount == ReduceAmount(skills, Num(0))
  IN [i \in 1..Len(skills) |->
        [name |-> skills[i].type,
         amount |-> skills[i].amount,
         percentage |-> Percentage(skills[i].amount, totalSkillAmount),
         skill |-> SkillName(skills[i].type)]]

\* state.skillsData at the end of fetchProfileData: from the user's skills when
\* there are any, otherwise from the XP transactions
FetchedSkillsData(skills, trans) ==
  IF Len(skills) > 0 THEN UserSkillsData(skills) ELSE transformSkillsData(trans)

\* ------------------------------------------------ auditHelpers.js: details
TicksPerMonth == DaysPerMonth * TicksPerDay

\* an array as a value: only its length matters to the conversions
ArrayValue(s) == [k |-> "array", n |-> Len(s), d |-> 1]

\* reduce((sum, audit) => sum + (audit.amount || 0), 0)
RECURSIVE ReduceAmountOr0(_, _)
ReduceAmountOr0(s, sum) ==
  IF s = <<>> THEN sum
  ELSE ReduceAmountOr0(Tail(s), JsAdd(sum, JsOr(Head(s).amount, Num(0))))

\* reduce(...) / (audits.length || 1)
AverageAmount(audits) ==
  JsDiv(ReduceAmountOr0(audits, Num(0)),
        IF Len(audits) = 0 THEN Num(1) ELSE Num(Len(audits)))

\* byProject after a forEach over s; side is "done" or "received"
RECURSIVE AuditProjectMap(_, _, _)
AuditProjectMap(s, m, side) ==
  IF s = <<>> THEN m
  ELSE LET audit == Head(s)
           projectName == StrOr(audit.object.name, "Unknown")
           i == IndexOfKey(m, projectName)
           m1 == IF i = 0
                 THEN Append(m, [key |-> projectName, done |-> 0, received |-> 0,
                                 totalAmount |-> Num(0), count |-> 0])
                 ELSE m
           j == IF i = 0 THEN Len(m1) ELSE i
           e == m1[j]
           e1 == [e EXCEPT !.done = IF side = "done" THEN @ + 1 ELSE @,
                           !.received = IF side = "received" THEN @ + 1 ELSE @,
                           !.totalAmount = JsAdd(@, JsOr(audit.amount, Num(0))),
                           !.count = @ + 1]
       IN AuditProjectMap(Tail(s), [m1 EXCEPT ![j] = e1], side)

Min(a, b) == IF a < b THEN a ELSE b

analyzeAuditDetails(auditsDone, auditsReceived) ==
  LET byProject == AuditProjectMap(auditsReceived,
                     AuditProjectMap(auditsDone, <<>>, "done"), "received")
      recentDoneCount == Min(Len(auditsDone), RecentAudits)
      recentReceivedCount == Min(Len(auditsReceived), RecentAudits)
  IN [averageAmounts |-> [done |-> AverageAmount(auditsDone),
                          received |-> AverageAmount(auditsReceived)],
      byProject |-> [i \in 1..Len(byProject) |->
                       [name |-> byProject[i].key,
                        done |-> byProject[i].done,
                        received |-> byProject[i].received,
                        totalAmount |-> byProject[i].totalAmount,
                        count |-> byProject[i].count,
                        averageAmount |-> JsDiv(byProject[i].totalAmount,
                                                Num(byProject[i].count))]],
      recent |-> [done |-> recentDoneCount,
                  received |-> recentReceivedCount,
                  ratio |-> JsDiv(Num(recentDoneCount),
                                  IF recentReceivedCount = 0 THEN Num(1)
                                  ELSE Num(recentReceivedCount))]]

\* ------------------------------------------------ auditHelpers.js: history
\* `${date.getFullYear()}-${date.getMonth() + 1}`: the local calendar month
MonthKey(t) == (t + tz) \div TicksPerMonth

\* new Date(date.getFullYear(), date.getMonth(), 1): local midnight of day 1
FirstOfMonth(t) == MonthKey(t) * TicksPerMonth - tz

\* monthsMap after a forEach over s; side is "done" or "received"
RECURSIVE MonthsMap(_, _, _)
MonthsMap(s, m, side) ==
  IF s = <<>> THEN m
  ELSE LET audit == Head(s)
           monthKey == MonthKey(audit.createdAt)
           i == IndexOfKey(m, monthKey)
           m1 == IF i = 0
                 THEN Append(m, [key |-> monthKey, month |-> monthKey,
                                 done |-> 0, received |-> 0,
                                 doneAmount |-> Num(0), receivedAmount |-> Num(0),
                                 date |-> FirstOfMonth(audit.createdAt)])
                 ELSE m
           j == IF i = 0 THEN Len(m1) ELSE i
           e == m1[j]
           amount == JsOr(audit.amount, Num(0))
           e1 == IF side = "done"
                 THEN [e EXCEPT !.done = @ + 1, !.doneAmount = JsAdd(@, amount)]
                 ELSE [e EXCEPT !.received = @ + 1,
                                !.receivedAmount = JsAdd(@, amount)]
       IN MonthsMap(Tail(s), [m1 EXCEPT ![j] = e1], side)

\* js/utils/auditHelpers.js: receivedAmount > 0 ? done / received : 1
MonthRatio(month) ==
  IF JsLT(Num(0), month.receivedAmount)
  THEN JsDiv(month.doneAmount, month.receivedAmount)
  ELSE Num(1)

\* the amount-based variant: ... : doneAmount > 0 ? doneAmount / 1000 : 1
MonthRatioByAmount(month) ==
  IF JsLT(Num(0), month.receivedAmount)
  THEN JsDiv(month.doneAmount, month.receivedAmount)
  ELSE IF JsLT(Num(0), month.doneAmount)
       THEN JsDiv(month.doneAmount, Num(RatioNormalizer))
       ELSE Num(1)

\* the placeholder point of the current month
PlaceholderMonth ==
  [month |-> MonthKey(now), done |-> 0, received |-> 0,
   doneAmount |-> Num(0), receivedAmount |-> Num(0),
   date |-> FirstOfMonth(now), ratio |-> Num(1)]

MonthPoint(e, ratio) ==
  [month |-> e.month, done |-> e.done, received |-> e.received,
   doneAmount |-> e.doneAmount, receivedAmount |-> e.receivedAmount,
   date |-> e.date, ratio |-> ratio]

getAuditHistoryTrend(auditsDone, auditsReceived) ==
  IF Len(auditsDone) = 0 /\ Len(auditsReceived) = 0 THEN <<PlaceholderMonth>>
  ELSE LET m == MonthsMap(auditsReceived, MonthsMap(auditsDone, <<>>, "done"),
                          "received")
           points == [i \in 1..Len(m) |-> MonthPoint(m[i], MonthRatio(m[i]))]
           history == SortByKey(points, [i \in 1..Len(points) |-> Num(points[i].date)])
       IN IF Len(history) = 0 THEN <<PlaceholderMonth>> ELSE history

getAuditHistoryTrendByAmount(auditsDone, auditsReceived) ==
  LET m == MonthsMap(auditsReceived, MonthsMap(auditsDone, <<>>, "done"),
                     "received")
      points == [i \in 1..Len(m) |-> MonthPoint(m[i], MonthRatioByAmount(m[i]))]
  IN SortByKey(points, [i \in 1..Len(points) |-> Num(points[i].date)])

\* -------------------------------------------------- audit ratio and summary
\* js/utils/auditHelpers.js: calculateAuditRatio(ratio); the object it
\* returns has no doneAmount and no receivedAmount, which read as undefined
calculateAuditRatio(ratio) ==
  [ratio |-> ratio,
   isBalanced |-> JsGE(ratio, Num(1)),
   needsAudits |-> JsLT(ratio, Rat(8, 10)),
   upToDate |-> JsGE(ratio, Num(1)),
   doneAmount |-> Undefined,
   receivedAmount |-> Undefined]

\* the amount-based variant: calculateAuditRatio(auditsDone, auditsReceived)
calculateAuditRatioByAmount(auditsDone, auditsReceived) ==
  LET doneAmount == ReduceAmountOr0(auditsDone, Num(0))
      receivedAmount == ReduceAmountOr0(auditsReceived, Num(0))
      ratio == JsDiv(doneAmount, receivedAmount)
  IN IF receivedAmount = Num(0)
     THEN [ratio |-> IF JsLT(Num(0), doneAmount)
                     THEN JsDiv(doneAmount, Num(RatioNormalizer)) ELSE Num(1),
           isBalanced |-> TRUE, needsAudits |-> FALSE, upToDate |-> TRUE,
           doneAmount |-> doneAmount, receivedAmount |-> receivedAmount]
     ELSE [ratio |-> ratio,
           isBalanced |-> JsGE(ratio, Num(1)),
           needsAudits |-> JsLT(ratio, Rat(8, 10)),
           upToDate |-> JsGE(ratio, Num(1)),
           doneAmount |-> doneAmount, receivedAmount |-> receivedAmount]

\* the summary returned when there is no audit data at all
NoAuditData ==
  [done |-> 0, received |-> 0, doneAmount |-> Num(0), receivedAmount |-> Num(0),
   ratio |-> Num(1), upToDate |-> TRUE, history |-> <<>>]

\* dataTransformers.js: transformAuditData, which calls the one-argument
\* calculateAuditRatio of js/utils/auditHelpers.js with the two arrays, so
\* that its parameter ratio is bound to auditsDone
transformAuditData(reply) ==
  IF ~reply.defined THEN NoAuditData
  ELSE LET auditsDone == reply.auditsDone
           auditsReceived == reply.auditsReceived
           ratioStats == calculateAuditRatio(ArrayValue(auditsDone))
       IN [done |-> Len(auditsDone),
           received |-> Len(auditsReceived),
           doneAmount |-> JsOr(ratioStats.doneAmount, Num(0)),
           receivedAmount |-> JsOr(ratioStats.receivedAmount, Num(0)),
           ratio |-> ratioStats.ratio,
           upToDate |-> ratioStats.upToDate,
           needsAudits |-> ratioStats.needsAudits,
           details |-> analyzeAuditDetails(auditsDone, auditsReceived),
           history |-> getAuditHistoryTrend(auditsDone, auditsReceived)]

\* the transformAuditData of the amount-based variant
transformAuditDataByAmount(reply) ==
  IF ~reply.defined THEN NoAuditData
  ELSE LET auditsDone == reply.auditsDone
           auditsReceived == reply.auditsReceived
           ratioStats == calculateAuditRatioByAmount(auditsDone, auditsReceived)
       IN [done |-> Len(auditsDone),
           received |-> Len(auditsReceived),
           doneAmount |-> ratioStats.doneAmount,
           receivedAmount |-> ratioStats.receivedAmount,
           ratio |-> ratioStats.ratio,
           upToDate |-> ratioStats.upToDate,
           needsAudits |-> ratioStats.needsAudits,
           details |-> analyzeAuditDetails(auditsDone, auditsReceived),
           history |-> getAuditHistoryTrendByAmount(auditsDone, auditsReceived)]

\* ------------------------------------------- svgHelpers.js: d3ScaleLinear
DateValue(t) == [k |-> "date", n |-> t, d |-> 1]

\* x instanceof Date ? x.getTime() : Number(x) || fallback
TimeOrNumber(x, fallback) ==
  IF x.k = "date" THEN Num(x.n) ELSE JsOr(ToNumber(x), fallback)

\* Math.min and Math.max of two numbers: NaN if either is NaN
MathMin(a, b) ==
  IF a.k = "NaN" \/ b.k = "NaN" THEN NaN ELSE IF JsLT(b, a) THEN b ELSE a

MathMax(a, b) ==
  IF a.k = "NaN" \/ b.k = "NaN" THEN NaN ELSE IF JsLT(a, b) THEN b ELSE a

\* the closure built by d3ScaleLinear(domain, range); an argument that is not
\* an array of two elements has valid = FALSE
d3ScaleLinear(domain, range) ==
  LET dom == IF domain.valid THEN domain.ends ELSE <<Num(0), Num(1)>>
      rng == IF range.valid THEN range.ends ELSE <<Num(0), Num(100)>>
      domainStart == TimeOrNumber(dom[1], Num(0))
      domainEnd == TimeOrNumber(dom[2], Num(1))
      domainDiff == IF domainEnd = domainStart THEN Num(1)
                    ELSE JsSub(domainEnd, domainStart)
      rangeDiff == JsSub(rng[2], rng[1])
  IN [domain |-> dom, range |-> rng, domainStart |-> domainStart,
      domainEnd |-> domainEnd, domainDiff |-> domainDiff, rangeDiff |-> rangeDiff]

\* the scale without the clamp of the normalized value
ScaleUnclamped(sc, v) ==
  IF v.k \in {"undefined", "null"} THEN sc.range[1]
  ELSE LET val == TimeOrNumber(v, Num(0))
           normalizedValue == JsDiv(JsSub(val, sc.domainStart), sc.domainDiff)
       IN JsAdd(sc.range[1], JsMul(normalizedValue, sc.rangeDiff))

\* scale(value)
Scale(sc, v) ==
  IF v.k \in {"undefined", "null"} THEN sc.range[1]
  ELSE LET val == TimeOrNumber(v, Num(0))
           normalizedValue == JsDiv(JsSub(val, sc.domainStart), sc.domainDiff)
           clampedValue == MathMax(Num(0), MathMin(Num(1), normalizedValue))
       IN JsAdd(sc.range[1], JsMul(clampedValue, sc.rangeDiff))

\* --------------------------------- dataTransformers.js: project results
\* the test with a strict comparison
GradeAbove(result) == JsLT(Num(1), result.grade)

\* result.grade >= 1
GradePasses(result) == JsGE(result.grade, Num(1))

\* results.filter(result => result.grade >= 1).length
RECURSIVE PassedCount(_)
PassedCount(s) ==
  IF s = <<>> THEN 0
  ELSE (IF GradePasses(Head(s)) THEN 1 ELSE 0) + PassedCount(Tail(s))

\* byType after the forEach over s, in insertion order
RECURSIVE ByType(_, _)
ByType(s, m) ==
  IF s = <<>> THEN m
  ELSE LET result == Head(s)
           type == StrOr(result.object.type, "unknown")
           i == IndexOfKey(m, type)
           m1 == IF i = 0
                 THEN Append(m, [key |-> type, type |-> type, total |-> 0,
                                 passed |-> 0, failed |-> 0])
                 ELSE m
           j == IF i = 0 THEN Len(m1) ELSE i
           e == m1[j]
           e1 == IF GradePasses(result)
                 THEN [e EXCEPT !.total = @ + 1, !.passed = @ + 1]
                 ELSE [e EXCEPT !.total = @ + 1, !.failed = @ + 1]
       IN ByType(Tail(s), [m1 EXCEPT ![j] = e1])

\* dateMap of the results after the forEach over s
RECURSIVE ResultDateMap(_, _)
ResultDateMap(s, m) ==
  IF s = <<>> THEN m
  ELSE LET result == Head(s)
           date == ToLocaleDateString(result.createdAt)
           i == IndexOfKey(m, date)
           m1 == IF i = 0
                 THEN Append(m, [key |-> date, date |-> result.createdAt,
                                 total |-> 0, passed |-> 0, failed |-> 0])
                 ELSE m
           j == IF i = 0 THEN Len(m1) ELSE i
           e == m1[j]
           e1 == IF GradePasses(result)
                 THEN [e EXCEPT !.total = @ + 1, !.passed = @ + 1]
                 ELSE [e EXCEPT !.total = @ + 1, !.failed = @ + 1]
       IN ResultDateMap(Tail(s), [m1 EXCEPT ![j] = e1])

\* (passed / total) * 100
SuccessRate(passed, total) == JsMul(JsDiv(Num(passed), Num(total)), Num(100))

\* the value returned for no results
NoProjectResults ==
  [total |-> 0, passed |-> 0, failed |-> 0, successRate |-> Num(0),
   byType |-> <<>>, byDate |-> <<>>]

transformProjectResults(resultList) ==
  IF Len(resultList) = 0 THEN NoProjectResults
  ELSE LET total == Len(resultList)
           passed == PassedCount(resultList)
           byType == ByType(resultList, <<>>)
           dateMap == ResultDateMap(resultList, <<>>)
           sorted == SortByKey(dateMap,
                               [i \in 1..Len(dateMap) |-> DateAscending(dateMap[i])])
       IN [total |-> total,
           passed |-> passed,
           failed |-> total - passed,
           successRate |-> SuccessRate(passed, total),
           byType |-> [i \in 1..Len(byType) |->
                         [type |-> byType[i].type, total |-> byType[i].total,
                          passed |-> byType[i].passed, failed |-> byType[i].failed,
                          successRate |-> SuccessRate(byType[i].passed,
                                                      byType[i].total)]],
           byDate |-> [i \in 1..Len(sorted) |->
                         [date |-> sorted[i].date, total |-> sorted[i].total,
                          passed |-> sorted[i].passed, failed |-> sorted[i].failed,
                          successRate |-> SuccessRate(sorted[i].passed,
                                                      sorted[i].total)]]]

\* ------------------------------------------- svgHelpers.js: d3ArrayExtent
\* Math.min(...values) and Math.max(...values)
RECURSIVE MathMinOf(_, _)
MathMinOf(values, least) ==
  IF values = <<>> THEN least
  ELSE MathMinOf(Tail(values), MathMin(least, ToNumber(Head(values))))

RECURSIVE MathMaxOf(_, _)
MathMaxOf(values, greatest) ==
  IF values = <<>> THEN greatest
  ELSE MathMaxOf(Tail(values), MathMax(greatest, ToNumber(Head(values))))

\* max === 0 ? 0.1 : max * 0.05
ExtentBuffer(max) == IF max = Num(0) THEN Rat(1, 10) ELSE JsMul(max, Rat(5, 100))

\* d3ArrayExtent(array, accessor); mapped is array.map(accessor)
d3ArrayExtent(mapped) ==
  LET values == SelectSeq(mapped, LAMBDA v : v.k \notin {"undefined", "null"})
  IN IF Len(mapped) = 0 \/ Len(values) = 0 THEN <<Num(0), Num(1)>>
     ELSE IF values[1].k = "date"
     THEN <<DateValue(MathMinOf(values, PosInf).n),
            DateValue(MathMaxOf(values, NegInf).n)>>
     ELSE LET min == MathMinOf(values, PosInf)
              max == MathMaxOf(values, NegInf)
          IN <<min, JsAdd(max, ExtentBuffer(max))>>

\* no extent has been taken
NoExtent == [done |-> FALSE, ends |-> <<Num(0), Num(1)>>]

\* --------------------------------------------- xpChart.js: createXPLineChart
\* Math.ceil
MathCeil(a) ==
  LET x == ToNumber(a) IN IF x.k = "num" THEN Num(-((-x.n) \div x.d)) ELSE x

\* createScales(data, dimensions, {xDomain, yDomain}): both domains given
createScales(xDomain, yDomain, dimensions) ==
  [xScale |-> d3ScaleLinear([valid |-> TRUE, ends |-> xDomain],
                            [valid |-> TRUE,
                             ends |-> <<Num(dimensions.padding),
                                        Num(dimensions.width - dimensions.padding)>>]),
   yScale |-> d3ScaleLinear([valid |-> TRUE, ends |-> yDomain],
                            [valid |-> TRUE,
                             ends |-> <<Num(dimensions.height - dimensions.padding),
                                        Num(dimensions.padding)>>])]

\* opts of createXPLineChart
LineDimensions == [width |-> 800, height |-> 400, padding |-> 50]

\* xpData.map((d, i) => `${i === 0 ? 'M' : 'L'} ${x} ${y}`): the points of
\* the line path
PathData(buckets, xScale, yScale) ==
  [i \in 1..Len(buckets) |->
     [cmd |-> IF i = 1 THEN "M" ELSE "L",
      x |-> Scale(xScale, DateValue(buckets[i].date)),
      y |-> Scale(yScale, buckets[i].cumulativeAmount)]]

\* d => d.cumulativeAmount over xpData
CumulativeAmounts(buckets) == [i \in 1..Len(buckets) |-> buckets[i].cumulativeAmount]

\* createXPLineChart(xpData, container): reading xpData[0].date of an empty
\* array throws a TypeError
createXPLineChart(buckets) ==
  IF Len(buckets) = 0 THEN [threw |-> TRUE, path |-> <<>>]
  ELSE LET xDomain == <<DateValue(buckets[1].date),
                        DateValue(buckets[Len(buckets)].date)>>
           yDomain == <<Num(0),
                        MathCeil(JsMul(MathMaxOf(CumulativeAmounts(buckets), NegInf),
                                       Rat(105, 100)))>>
           scales == createScales(xDomain, yDomain, LineDimensions)
       IN [threw |-> FALSE,
           path |-> PathData(buckets, scales.xScale, scales.yScale)]

\* the scale d3ScaleLinear(ends, ends), whose domain equals its range
IdentityScale(ends) ==
  d3ScaleLinear([valid |-> TRUE, ends |-> ends], [valid |-> TRUE, ends |-> ends])

\* the line points of the buckets under the identity scales over xEnds and
\* over yEnds
LineSeries(buckets, xEnds, yEnds) ==
  [built |-> TRUE, xEnds |-> xEnds, yEnds |-> yEnds,
   points |-> PathData(buckets, IdentityScale(xEnds), IdentityScale(yEnds))]

\* no line series has been built
NoLineSeries ==
  [built |-> FALSE, xEnds |-> <<Num(0), Num(1)>>, yEnds |-> <<Num(0), Num(1)>>,
   points |-> <<>>]

\* the test with 0 as its threshold
SomeBucket(byDate) == Len(byDate) > 0

\* state.xpData.byDate.length > 1
EnoughBuckets(byDate) == Len(byDate) > 1

\* the #xp-line-chart container before renderProfile fills it
NoLineChart == [shown |-> "none", data |-> <<>>, path |-> <<>>]

\* renderProfile, XP Line Chart: the chart of the buckets or the fallback
XpLineChart(byDate) ==
  IF EnoughBuckets(byDate)
  THEN [shown |-> "chart", data |-> byDate, path |-> createXPLineChart(byDate).path]
  ELSE [shown |-> "fallback", data |-> <<>>, path |-> <<>>]

\* ---------------------------------------------- xpChart.js: createXPBarChart
\* opts.maxBars when the caller gives no option
DefaultMaxBars == 10

\* opts of createXPBarChart
BarDimensions == [width |-> 800, height |-> 400, padding |-> 50]

\* projectsData.slice(0, opts.maxBars).map(d => ({name, amount})); the
\* totals of transformXpData have no name field, so d.project || d.name is
\* d.project || undefined
ProcessedData(projectsData, maxBars) ==
  [i \in 1..Min(Len(projectsData), maxBars) |->
     [name |-> StrOr(projectsData[i].project, "Unknown Project"),
      amount |-> JsOr(projectsData[i].amount, Num(0))]]

\* Math.max(...processedData.map(d => d.amount), 0)
MaxAmount(processedData) ==
  MathMax(MathMaxOf([i \in 1..Len(processedData) |-> processedData[i].amount],
                    NegInf),
          Num(0))

\* xScale(i) of the bar chart, i counted from 0
BarXScale(i, length) ==
  LET d == BarDimensions
  IN JsAdd(Num(d.padding + 35),
           JsMul(Num(i), JsDiv(Num(d.width - 2 * d.padding - 20),
                               JsOr(Num(length - 1), Num(1)))))

\* yScale(amount) of the bar chart
BarYScale(amount, maxAmount) ==
  LET d == BarDimensions
  IN JsSub(Num(d.height - d.padding),
           JsMul(JsDiv(amount, maxAmount), Num(d.height - 2 * d.padding)))

\* createXPBarChart(projectsData, container, {maxBars}): the bars drawn
createXPBarChart(projectsData, maxBars) ==
  LET d == BarDimensions
      processedData == ProcessedData(projectsData, maxBars)
      barWidth == MathMin(Num(60),
                          JsSub(JsDiv(Num(d.width - 2 * d.padding),
                                      Num(Len(processedData))),
                                Num(10)))
      maxAmount == MaxAmount(processedData)
  IN [i \in 1..Len(processedData) |->
        [name |-> processedData[i].name,
         amount |-> processedData[i].amount,
         x |-> JsSub(BarXScale(i - 1, Len(processedData)), JsDiv(barWidth, Num(2))),
         y |-> BarYScale(processedData[i].amount, maxAmount),
         width |-> barWidth,
         height |-> JsSub(Num(d.height - d.padding),
                          BarYScale(processedData[i].amount, maxAmount))]]

\* the #xp-bar-chart container before renderProfile fills it
NoBarChart == [shown |-> "none", maxBars |-> DefaultMaxBars, bars |-> <<>>]

\* renderProfile, XP Bar Chart: the chart of the totals or the fallback
XpBarChart(byProject) ==
  IF Len(byProject) > 0
  THEN [shown |-> "chart", maxBars |-> DefaultMaxBars,
        bars |-> createXPBarChart(byProject, DefaultMaxBars)]
  ELSE [shown |-> "fallback", maxBars |-> DefaultMaxBars, bars |-> <<>>]

\* ------------------------------------------------------ createDonutChart
\* angles are kept in units of pi, so that Math.PI is the number 1
MathPI == Num(1)

\* opts.labels
DonutLabels == <<"Passed", "Failed">>

\* segment.percentage >= 99.9: the segment drawn as a complete donut
CompletePercentage == Rat(999, 10)

\* segments.forEach((segment, i) => ...): the elements appended to the svg,
\* startAngle being the captured variable the callback updates
RECURSIVE DrawSegments(_, _)
DrawSegments(segments, startAngle) ==
  IF segments = <<>> THEN <<>>
  ELSE LET segment == Head(segments)
           endAngle == JsAdd(startAngle, segment.angle)
       IN IF segment.value = Num(0) THEN DrawSegments(Tail(segments), startAngle)
          ELSE IF /\ JsGE(segment.percentage, CompletePercentage)
                  /\ segment.label = DonutLabels[1]
          THEN <<[class |-> "donut-complete", label |-> segment.label,
                  value |-> segment.value, percentage |-> segment.percentage,
                  startAngle |-> startAngle, endAngle |-> endAngle,
                  largeArcFlag |-> 0]>>
               \o DrawSegments(Tail(segments), startAngle)
          ELSE <<[class |-> "donut-segment", label |-> segment.label,
                  value |-> segment.value, percentage |-> segment.percentage,
                  startAngle |-> startAngle, endAngle |-> endAngle,
                  largeArcFlag |-> IF JsLT(MathPI, segment.angle) THEN 1 ELSE 0]>>
               \o DrawSegments(Tail(segments), endAngle)

\* createDonutChart(data, container): the segments (also listed by the
\* legend), the elements drawn for them and the total shown in the centre
createDonutChart(data) ==
  LET total == JsAdd(data.passed, data.failed)
      passedPercentage == IF JsLT(Num(0), total)
                          THEN JsMul(JsDiv(data.passed, total), Num(100))
                          ELSE Num(0)
      failedPercentage == IF JsLT(Num(0), total)
                          THEN JsMul(JsDiv(data.failed, total), Num(100))
                          ELSE Num(0)
      passedAngle == JsMul(JsMul(JsDiv(passedPercentage, Num(100)), MathPI), Num(2))
      failedAngle == JsMul(JsMul(JsDiv(failedPercentage, Num(100)), MathPI), Num(2))
      segments == <<[label |-> DonutLabels[1], value |-> data.passed,
                     percentage |-> passedPercentage, angle |-> passedAngle],
                    [label |-> DonutLabels[2], value |-> data.failed,
                     percentage |-> failedPercentage, angle |-> failedAngle]>>
  IN [built |-> TRUE, total |-> total, segments |-> segments,
      drawn |-> DrawSegments(segments, Num(0))]

\* no donut has been built
NoDonut == [built |-> FALSE, total |-> Num(0), segments |-> <<>>, drawn |-> <<>>]

\* ------------------------------------------------- createSkillsRadarChart
\* skill.amount: undefined on an entry without that property
AmountField(skill) == IF "amount" \in DOMAIN skill THEN skill.amount ELSE Undefined

\* skill.skill || skill.name.replace('skill_', '')
SkillType(skill) == StrOr(skill.skill, IF "name" \in DOMAIN skill
                                        THEN SkillName(skill.name) ELSE "")

\* skillMaxValues after the forEach over s: per skill type, in insertion
\* order, the first entry or a later one with a greater amount
RECURSIVE SkillMaxValues(_, _)
SkillMaxValues(s, m) ==
  IF s = <<>> THEN m
  ELSE LET skill == Head(s)
           type == SkillType(skill)
           i == IndexOfKey(m, type)
           entry == [key |-> type, skill |-> type,
                     amount |-> AmountField(skill), percentage |-> Num(0)]
       IN SkillMaxValues(Tail(s),
            IF i = 0 THEN Append(m, entry)
            ELSE IF JsLT(m[i].amount, AmountField(skill))
            THEN [m EXCEPT ![i] = entry]
            ELSE m)

\* the most skills the radar shows
TopSkillsShown == 6

\* Object.values(skillMaxValues).sort((a, b) => b.amount - a.amount)
\* .slice(0, 6), each with percentage = amount
TopSkills(skillsList) ==
  LET m == SkillMaxValues(skillsList, <<>>)
      sorted == SortByKey(m, [i \in 1..Len(m) |-> AmountDescending(m[i])])
  IN [i \in 1..Min(Len(sorted), TopSkillsShown) |->
        [skill |-> sorted[i].skill, amount |-> sorted[i].amount,
         percentage |-> sorted[i].amount]]

\* opts.radius
RadarRadius == 105

\* skillPoints of createSkillsRadarChart(skills, container), each point in
\* polar form about the centre: x = centerX + distance * cos(angle) and
\* y = centerY + distance * sin(angle); fewer than 3 skills give the
\* placeholder and null
createSkillsRadarChart(skills) ==
  IF Len(skills) < 3 THEN [shown |-> "placeholder", points |-> <<>>]
  ELSE LET displaySkills == SubSeq(skills, 1, Min(Len(skills), TopSkillsShown))
           angleStep == JsDiv(JsMul(MathPI, Num(2)), Num(Len(displaySkills)))
       IN [shown |-> "chart",
           points |->
             [i \in 1..Len(displaySkills) |->
                [angle |-> JsSub(JsMul(Num(i - 1), angleStep),
                                 JsDiv(MathPI, Num(2))),
                 distance |-> JsMul(JsDiv(displaySkills[i].percentage, Num(100)),
                                    Num(RadarRadius)),
                 skill |-> displaySkills[i].skill]]]

\* the #skills-radar-chart container before renderProfile fills it
NoRadar == [shown |-> "none", points |-> <<>>]

\* renderProfile, Skills Radar Chart
SkillsRadarChart(skillsList) ==
  IF Len(skillsList) >= 3 THEN createSkillsRadarChart(TopSkills(skillsList))
  ELSE [shown |-> "fallback", points |-> <<>>]

\* ------------------------------------------------------------------ inputs
RECURSIVE SeqsUpTo(_, _)
SeqsUpTo(S, n) ==
  IF n = 0 THEN {<<>>}
  ELSE LET shorter == SeqsUpTo(S, n - 1)
       IN shorter \cup {Append(s, x) : s \in {t \in shorter : Len(t) = n - 1}, x \in S}

ProjectGo == [name |-> "go-reloaded", type |-> "project"]
PiscineJs == [name |-> "piscine-js", type |-> "piscine"]
AsciiArt == [name |-> "ascii-art", type |-> "project"]

\* local-time offsets of the browser: UTC and one tick east of it
TzOffsets == {0, 1}

\* XP transactions as the API returns them: a positive amount, a timestamp
XpRecords == [amount : {Num(25), Num(50), Num(100)},
              createdAt : 0..MaxTime,
              object : {ProjectGo}]

\* transactions for the skill shares: two types, amounts that may be 0
SkillRecords == [amount : {Num(0), Num(25), Num(50)},
                 createdAt : {0},
                 object : {ProjectGo, PiscineJs}]

UserSkillRecords == [type : {"skill_go", "skill_js"}, amount : {Num(0), Num(50)}]

NoXpData == [total |-> Num(0), byDate |-> <<>>, byProject |-> <<>>]

\* no audit reply has arrived
NoAuditReply == [defined |-> FALSE, auditsDone |-> <<>>, auditsReceived |-> <<>>]

\* the audit part of the state while another part of the load is looked at
AuditIdle ==
  /\ now = 0
  /\ auditReply = NoAuditReply
  /\ auditData = NoAuditData
  /\ auditSummary = NoAuditData

\* no scale has been built
NoScale == d3ScaleLinear([valid |-> FALSE, ends |-> <<Num(0), Num(1)>>],
                         [valid |-> FALSE, ends |-> <<Num(0), Num(100)>>])

\* the scale part of the state while another part is looked at
ScaleIdle ==
  /\ domainArg = [valid |-> FALSE, ends |-> <<Num(0), Num(1)>>]
  /\ rangeArg = [valid |-> FALSE, ends |-> <<Num(0), Num(100)>>]
  /\ scale = NoScale
  /\ value = Undefined
  /\ pixel = Undefined

\* no project results have been loaded
ProjectIdle ==
  /\ results = <<>>
  /\ projectResults = NoProjectResults

\* the XP charts before renderProfile
XpChartIdle ==
  /\ lineChart = NoLineChart
  /\ barChart = NoBarChart
  /\ lineSeries = NoLineSeries

\* the chart part of the state while another part is looked at
ChartIdle ==
  /\ donutData = [passed |-> Num(0), failed |-> Num(0)]
  /\ donut = NoDonut
  /\ extentArg = <<>>
  /\ extent = NoExtent
  /\ XpChartIdle
  /\ radar = NoRadar

\* --------------------------------------------------------- auditChart.js
\* Array.isArray(auditData) ? auditData : auditData.history, or []
HistoryData(auditDataArg) ==
  IF "history" \in DOMAIN auditDataArg THEN auditDataArg.history ELSE <<>>

\* createAuditRatioChart(history, container): the points of the ratio line,
\* in the order of the array
createAuditRatioChart(history) ==
  IF Len(history) = 0 THEN [shown |-> "no-data", data |-> <<>>]
  ELSE [shown |-> "chart",
        data |-> [i \in 1..Len(history) |->
                    [date |-> history[i].date, ratio |-> history[i].ratio]]]

\* the opts of createAuditComparisonChart with a container of no width
ComparisonDimensions == [width |-> 400, height |-> 300, padding |-> 40]

\* opts.barPadding
BarPadding == Rat(2, 10)

\* slice(0, 5): the months shown
RecentMonths == 5

\* (a, b) => b.date - a.date
DateNewestFirst(h) == [i \in 1..Len(h) |-> Num(-h[i].date)]

\* array.reverse() of a fresh copy
Reverse(s) == [i \in 1..Len(s) |-> s[Len(s) + 1 - i]]

\* Math.max(...recentData.map(d => Math.max(d.done, d.received)))
ComparisonMaxValue(recentData) ==
  MathMaxOf([i \in 1..Len(recentData) |->
               MathMax(Num(recentData[i].done), Num(recentData[i].received))],
            NegInf)

\* xAxis.scale(value): the middle of the band of the first domain entry
\* whose time is that of value, or range[0]
ComparisonXScale(domain, date) ==
  LET d == ComparisonDimensions
      range == <<Num(d.padding), Num(d.width - d.padding)>>
      found == {i \in 1..Len(domain) : domain[i] = date}
      index == IF found = {} THEN -1
               ELSE (CHOOSE i \in found : \A j \in found : i <= j) - 1
      step == JsDiv(JsSub(range[2], range[1]), Num(Len(domain)))
  IN IF index = -1 THEN range[1]
     ELSE JsAdd(JsAdd(range[1], JsMul(Num(index), step)), JsDiv(step, Num(2)))

\* xAxis.bandwidth()
ComparisonBandwidth(length) ==
  LET d == ComparisonDimensions
  IN JsMul(JsDiv(Num(d.width - 2 * d.padding), Num(length)),
           JsSub(Num(1), BarPadding))

\* yAxis.scale(value)
ComparisonYScale(val, maxValue) ==
  LET d == ComparisonDimensions
      domainMin == Num(0)
      domainMax == JsMul(maxValue, Rat(11, 10))
      rangeMin == Num(d.height - d.padding)
      rangeMax == Num(d.padding)
  IN JsAdd(rangeMax,
           JsMul(JsSub(Num(1), JsDiv(JsSub(val, domainMin),
                                     JsSub(domainMax, domainMin))),
                 JsSub(rangeMin, rangeMax)))

\* height > 0 ? height : 0
HeightOrZero(height) == IF JsLT(Num(0), height) THEN height ELSE Num(0)

\* createAuditComparisonChart(auditData, container): the array it was given
\* as the call leaves it, and the attributes of the two bars of each month
\* once their animations have run
createAuditComparisonChart(auditDataArg) ==
  LET d == ComparisonDimensions
      historyData == HistoryData(auditDataArg)
      sorted == SortByKey(historyData, DateNewestFirst(historyData))
      recentData == Reverse(SubSeq(sorted, 1, Min(RecentMonths, Len(sorted))))
      domain == [i \in 1..Len(recentData) |-> recentData[i].date]
      maxValue == ComparisonMaxValue(recentData)
      barWidth == JsSub(JsDiv(ComparisonBandwidth(Len(domain)), Num(2)), Num(5))
      Bar(m) ==
        LET x == JsSub(JsSub(ComparisonXScale(domain, m.date), barWidth),
                       Rat(5, 2))
            y == ComparisonYScale(Num(m.done), maxValue)
            receivedY == ComparisonYScale(Num(m.received), maxValue)
        IN [date |-> m.date, done |-> m.done, received |-> m.received,
            x |-> x, y |-> y, width |-> barWidth,
            height |-> HeightOrZero(JsSub(Num(d.height - d.padding), y)),
            receivedX |-> JsAdd(JsAdd(x, barWidth), Num(5)),
            receivedY |-> receivedY,
            receivedHeight |->
              HeightOrZero(JsSub(Num(d.height - d.padding), receivedY))]
  IN IF Len(historyData) = 0
     THEN [shown |-> "no-data", history |-> historyData, bars |-> <<>>]
     ELSE [shown |-> "chart", history |-> sorted,
           bars |-> [i \in 1..Len(recentData) |-> Bar(recentData[i])]]

\* the #audit-ratio-chart and #audit-comparison-chart containers before
\* renderProfile fills them
NoAuditChart == [shown |-> "none", data |-> <<>>]

NoComparisonChart == [shown |-> "none", bars |-> <<>>]

\* ------------------------------------------------------------------ app.js
\* routes[hash] || 'notFound'
Routes(h) ==
  IF h = "#/" THEN "home" ELSE IF h = "#/login" THEN "login" ELSE "notFound"

\* a token check that passes when there is no token
TokenNotExpired(token) == token # "expired"

\* auth.js, isAuthenticated(): a token is stored, decodes and has not expired
isAuthenticated(token) == token = "valid"

\* a router that lets an authenticated visitor stay on the login route
StaysOnLogin(route, authenticated) == FALSE

\* handleRoute: route === 'login' && state.isAuthenticated
RedirectsFromLogin(route, authenticated) == route = "login" /\ authenticated

\* where handleRoute navigates to instead of rendering, or "none"
RedirectOf(route, authenticated) ==
  IF RedirectsFromLogin(route, authenticated) THEN "#/"
  ELSE IF route = "home" /\ ~authenticated THEN "#/login"
  ELSE "none"

\* --------------------------------------- profile.js: renderProfileComponent
\* the profile container and loading indicator of a new profile component;
\* thrown is what the catch of its latest call of fetchProfileData caught
NewComponent == [content |-> "empty", loader |-> "none", hides |-> 0, thrown |-> "pending"]

\* the part of the page and of profile.js's state that a load works on
World == [components |-> components, loads |-> loads, profileState |-> profileState]

\* the queries fetchProfileData sends once the reply to query q is in: the
\* skills query follows the audits only if the user record has no skills
NextQueriesTogether(q, user) ==
  CASE q = "user" -> <<"xp", "results">>
    [] q = "xp" -> <<>>
    [] q = "results" -> <<"audits">>
    [] q = "audits" -> IF user = "skilled" THEN <<>> ELSE <<"skills">>
    [] OTHER -> <<>>

NextQueries(q, user) ==
  CASE q = "user" -> <<"xp">>
    [] q = "xp" -> <<"results">>
    [] q = "results" -> <<"audits">>
    [] q = "audits" -> IF user = "skilled" THEN <<>> ELSE <<"skills">>
    [] OTHER -> <<>>

\* s without its element at index l
Without(s, l) == SubSeq(s, 1, l - 1) \o SubSeq(s, l + 1, Len(s))

\* the end of the call l of fetchProfileData made for component c (l is 0
\* for a call that has sent no query): its catch and finally, then
\* loadingIndicator.hide() and the error message or the profile; failure is
\* the message thrown, or "none", kept as thrown until the component's
\* next call
EndLoad(w, l, c, failure) ==
  LET error == IF failure # "none" THEN failure ELSE w.profileState.error
  IN [w EXCEPT !.loads = IF l = 0 THEN @ ELSE Without(@, l),
               !.profileState.error = error,
               !.profileState.isLoading = FALSE,
               !.components[c].hides = @ + 1,
               !.components[c].thrown = failure,
               !.components[c].content =
                  IF error # "none" THEN "error" ELSE "profile"]

\* loadProfileData() of component c up to its first await: the indicator is
\* shown, state.isLoading and state.error are reset and the user query is
\* sent, unless fetchGraphQL finds no token
LoadProfileData(w, c, token) ==
  LET w1 == [w EXCEPT !.components[c].loader = "flex",
                      !.components[c].thrown = "pending",
                      !.profileState.isLoading = TRUE,
                      !.profileState.error = "none"]
  IN IF token = "none"
     THEN EndLoad(w1, 0, c, "Authentication required: No token found")
     ELSE [w1 EXCEPT !.loads = Append(@, [component |-> c, sent |-> <<"user">>,
                                          received |-> 0])]

\* document.dispatchEvent(new CustomEvent('reload-profile')): every
\* registered listener runs, in the order of registration
RECURSIVE DispatchReloadProfile(_, _, _)
DispatchReloadProfile(w, registered, token) ==
  IF registered = <<>> THEN w
  ELSE DispatchReloadProfile(LoadProfileData(w, Head(registered), token),
                             Tail(registered), token)

\* the reply to the oldest open query of load l has arrived; outcome is "ok"
\* or the message fetchGraphQL throws, skills says whether the user record
\* of an "ok" reply to the user query lists skills
AfterReply(w, l, outcome, skills, token) ==
  LET load == w.loads[l]
      q == load.sent[load.received + 1]
      w1 == [w EXCEPT !.loads[l].received = @ + 1]
      user == IF q = "user" THEN skills ELSE w.profileState.user
      w2 == [w1 EXCEPT !.profileState.user = user]
      next == NextQueries(q, user)
  IN IF outcome # "ok" THEN EndLoad(w1, l, load.component, outcome)
     ELSE IF next = <<>> THEN EndLoad(w2, l, load.component, "none")
     ELSE IF token = "none"
     THEN EndLoad(w2, l, load.component, "Authentication required: No token found")
     ELSE [w2 EXCEPT !.loads[l].sent = @ \o next]

\* the messages of the failures of fetchGraphQL after the request was sent
ReplyOutcomes == {"ok", "HTTP error", "GraphQL error"}

\* nothing is loaded, nobody is logged in and the page is empty
NoProfileState == [isLoading |-> FALSE, error |-> "none", user |-> "none"]

NoAppState == [isAuthenticated |-> FALSE, user |-> "none"]

NoLogins == [current |-> 0, stale |-> 0]

\* the audit charts before renderProfile
AuditChartIdle ==
  /\ ratioChart = NoAuditChart
  /\ comparisonChart = NoComparisonChart

\* the page before the application has started
PageIdle ==
  /\ started = FALSE
  /\ hash = ""
  /\ hashChanges = 0
  /\ redirects = 0
  /\ appView = "blank"
  /\ appState = NoAppState
  /\ localStorage = "none"
  /\ loginButton = "none"
  /\ logins = NoLogins
  /\ components = <<>>
  /\ listeners = <<>>
  /\ loads = <<>>
  /\ profileState = NoProfileState
  /\ retries = 0

\* the rest of the application while one part is looked at
AppIdle ==
  /\ auditDataAgain = NoAuditData
  /\ AuditChartIdle
  /\ PageIdle

\* ------------------------------------------------------------- XP pipeline
InitXp ==
  /\ applied = {}
  /\ tz \in TzOffsets
  /\ transactions \in SeqsUpTo(XpRecords, MaxLen)
  /\ xpData = NoXpData
  /\ userSkills = <<>>
  /\ skillsData = <<>>
  /\ AuditIdle
  /\ ScaleIdle
  /\ ChartIdle
  /\ ProjectIdle
  /\ AppIdle

\* state.xpData = transformXpData(xpData.transaction)
TransformXpData ==
  /\ "xp" \notin applied
  /\ applied' = applied \cup {"xp"}
  /\ xpData' = transformXpData(transactions)
  /\ UNCHANGED <<appVars, chartVars, projectVars, tz, transactions, userSkills, skillsData, auditVars, scaleVars>>

NextXp == TransformXpData

SpecXp == InitXp /\ [][NextXp]_vars

\* --------------------------------------------------------- skills pipeline
InitSkills ==
  /\ applied = {}
  /\ tz = 0
  /\ transactions \in SeqsUpTo(SkillRecords, MaxSkillLen)
  /\ xpData = NoXpData
  /\ userSkills \in SeqsUpTo(UserSkillRecords, MaxSkillLen)
  /\ skillsData = <<>>
  /\ AuditIdle
  /\ ScaleIdle
  /\ ChartIdle
  /\ ProjectIdle
  /\ AppIdle

\* state.skillsData = transformSkillsData(xpData.transaction), on its own
TransformSkillsData ==
  /\ applied = {}
  /\ applied' = {"skills"}
  /\ skillsData' = transformSkillsData(transactions)
  /\ UNCHANGED <<appVars, chartVars, projectVars, tz, transactions, xpData, userSkills, auditVars,
                 scaleVars>>

\* the tail of fetchProfileData: skills of the user query, or the fallback
FetchSkillsData ==
  /\ applied = {}
  /\ applied' = {"fetched"}
  /\ skillsData' = FetchedSkillsData(userSkills, transactions)
  /\ UNCHANGED <<appVars, chartVars, projectVars, tz, transactions, xpData, userSkills, auditVars,
                 scaleVars>>

NextSkills == TransformSkillsData \/ FetchSkillsData

SpecSkills == InitSkills /\ [][NextSkills]_vars

\* ------------------------------------------------------------ claims C1..C3
XpDone == "xp" \in applied

\* the amounts of well-formed records are whole numbers: their plain sum
RECURSIVE SumOf(_, _)
SumOf(f, S) ==
  IF S = {} THEN 0
  ELSE LET x == CHOOSE y \in S : TRUE IN f[x] + SumOf(f, S \ {x})

AmountOf(recs) == [i \in 1..Len(recs) |-> recs[i].amount.n]

\* the local calendar day that holds instant t
CalendarDay(t) ==
  CHOOSE day \in -1..(MaxTime + 2) :
    day * TicksPerDay <= t + tz /\ t + tz < (day + 1) * TicksPerDay

\* C1: for every non-empty list of records the byDate series is sorted
\* strictly ascending by date and the cumulativeAmount of its last bucket is
\* the sum of amount over all the records.
C1_SortedAndTotal ==
  (XpDone /\ Len(transactions) > 0) =>
    LET b == xpData.byDate IN
      /\ Len(b) > 0
      /\ \A i \in 1..(Len(b) - 1) : b[i].date < b[i + 1].date
      /\ b[Len(b)].cumulativeAmount =
           Num(SumOf(AmountOf(transactions), 1..Len(transactions)))

C1_Witness ==
  /\ XpDone
  /\ Len(transactions) = 3
  /\ Len(xpData.byDate) = 2
  /\ transactions[1].createdAt > transactions[3].createdAt
  /\ xpData.byDate[2].cumulativeAmount = Num(175)

\* C2: at every index i of byDate, cumulativeAmount is the sum of amount over
\* the buckets 0..i: the first equals its own amount and each later one is
\* its predecessor's cumulativeAmount plus its own amount.
C2_RunningSum ==
  XpDone =>
    LET b == xpData.byDate IN
      \A i \in 1..Len(b) :
        /\ IsNum(b[i].cumulativeAmount) /\ b[i].cumulativeAmount.d = 1
        /\ b[i].cumulativeAmount.n =
             (IF i = 1 THEN 0 ELSE b[i - 1].cumulativeAmount.n) + b[i].amount.n

C2_Witness ==
  /\ XpDone
  /\ Len(xpData.byDate) >= 2
  /\ xpData.byDate[2].cumulativeAmount # xpData.byDate[2].amount
  /\ xpData.byDate[2].cumulativeAmount # xpData.byDate[1].cumulativeAmount

\* C3: records are grouped by local calendar day: every record's day has
\* exactly one bucket, whatever the time of day, no two buckets share a day,
\* and a bucket's amount is the sum of the amounts of exactly the records of
\* its day (100 and 50 on one day and 25 on the next give 150 and 25, with
\* cumulative 150 and 175).
C3_GroupedByDay ==
  XpDone =>
    LET b == xpData.byDate
        onDay(day) == {i \in 1..Len(transactions) :
                         CalendarDay(transactions[i].createdAt) = day}
    IN /\ \A i \in 1..Len(transactions) :
            Cardinality({j \in 1..Len(b) : CalendarDay(b[j].date) =
                           CalendarDay(transactions[i].createdAt)}) = 1
       /\ \A j, l \in 1..Len(b) :
            CalendarDay(b[j].date) = CalendarDay(b[l].date) => j = l
       /\ \A j \in 1..Len(b) :
            /\ onDay(CalendarDay(b[j].date)) # {}
            /\ b[j].amount =
                 Num(SumOf(AmountOf(transactions), onDay(CalendarDay(b[j].date))))

C3_Witness ==
  /\ XpDone
  /\ tz = 0
  /\ Len(transactions) = 3
  /\ transactions[1].amount = Num(100) /\ transactions[1].createdAt = 0
  /\ transactions[2].amount = Num(50)
  /\ transactions[2].createdAt = TicksPerDay - 1
  /\ transactions[3].amount = Num(25)
  /\ transactions[3].createdAt = TicksPerDay
  /\ Len(xpData.byDate) = 2
  /\ xpData.byDate[1].amount = Num(150)
  /\ xpData.byDate[1].cumulativeAmount = Num(150)
  /\ xpData.byDate[2].amount = Num(25)
  /\ xpData.byDate[2].cumulativeAmount = Num(175)

\* ---------------------------------------------------------------- claim C4
SkillsDone == applied \cap {"skills", "fetched"} # {}

\* the records whose amounts the percentages of skillsData are shares of
SkillsSource ==
  IF "fetched" \in applied /\ Len(userSkills) > 0 THEN userSkills
  ELSE transactions

RECURSIVE ReducePercentage(_, _)
ReducePercentage(s, sum) ==
  IF s = <<>> THEN sum
  ELSE ReducePercentage(Tail(s), JsAdd(sum, Head(s).percentage))

\* C4: the percentages of the category totals sum to 100 when the total
\* amount is > 0, and every percentage is 0 (not NaN) when the total is 0.
C4_Percentages ==
  (SkillsDone /\ Len(SkillsSource) > 0) =>
    LET total == SumOf(AmountOf(SkillsSource), 1..Len(SkillsSource)) IN
      /\ total > 0 => ReducePercentage(skillsData, Num(0)) = Num(100)
      /\ total = 0 =>
           \A i \in 1..Len(skillsData) : skillsData[i].percentage = Num(0)

\* the half of C4 the code keeps: with a positive total the shares sum to 100
C4_PositiveTotal ==
  (SkillsDone /\ Len(SkillsSource) > 0) =>
    (SumOf(AmountOf(SkillsSource), 1..Len(SkillsSource)) > 0
       => ReducePercentage(skillsData, Num(0)) = Num(100))

\* what the code returns for a zero total: every percentage is NaN
C4_ZeroTotalIsNaN ==
  (SkillsDone /\ Len(SkillsSource) > 0) =>
    (SumOf(AmountOf(SkillsSource), 1..Len(SkillsSource)) = 0
       => \A i \in 1..Len(skillsData) : skillsData[i].percentage = NaN)

\* ---------------------------------------------------------- audit pipeline
\* "up" and "down" transactions of two months
AuditRecords == [amount : {Num(0), Num(25), Num(50)},
                 createdAt : {0, TicksPerMonth},
                 object : {ProjectGo}]

AuditReplies ==
  {NoAuditReply} \cup
  [defined : {TRUE},
   auditsDone : SeqsUpTo(AuditRecords, MaxAudits),
   auditsReceived : SeqsUpTo(AuditRecords, MaxAudits)]

NowTimes == {0, TicksPerMonth + 1}

InitAudit ==
  /\ applied = {}
  /\ tz = 0
  /\ transactions = <<>>
  /\ xpData = NoXpData
  /\ userSkills = <<>>
  /\ skillsData = <<>>
  /\ now \in NowTimes
  /\ auditReply \in AuditReplies
  /\ auditData = NoAuditData
  /\ auditSummary = NoAuditData
  /\ ScaleIdle
  /\ ChartIdle
  /\ ProjectIdle
  /\ AppIdle

\* state.auditData = transformAuditData(auditData)
TransformAuditData ==
  /\ applied = {}
  /\ applied' = {"audit"}
  /\ auditData' = transformAuditData(auditReply)
  /\ UNCHANGED <<appVars, chartVars, projectVars, tz, transactions, xpData, userSkills, skillsData, now,
                 auditReply, auditSummary, scaleVars>>

\* the same reply through the amount-based variant
TransformAuditDataByAmount ==
  /\ applied = {}
  /\ applied' = {"auditByAmount"}
  /\ auditSummary' = transformAuditDataByAmount(auditReply)
  /\ UNCHANGED <<appVars, chartVars, projectVars, tz, transactions, xpData, userSkills, skillsData, now,
                 auditReply, auditData, scaleVars>>

NextAudit == TransformAuditData \/ TransformAuditDataByAmount

SpecAudit == InitAudit /\ [][NextAudit]_vars

\* ---------------------------------------------------------- claims C5, C6
\* the audit summaries produced so far
AuditSummaries ==
  (IF "audit" \in applied THEN {auditData} ELSE {}) \cup
  (IF "auditByAmount" \in applied THEN {auditSummary} ELSE {})

\* the sums of amount over the done and the received records
DoneSum == SumOf(AmountOf(auditReply.auditsDone), 1..Len(auditReply.auditsDone))

ReceivedSum ==
  SumOf(AmountOf(auditReply.auditsReceived), 1..Len(auditReply.auditsReceived))

\* C5: in every audit summary ratio equals doneAmount / receivedAmount when
\* receivedAmount > 0, and ratio is always a defined finite number (never
\* Infinity, NaN or a non-number), also when receivedAmount is 0.
C5_Ratio ==
  \A s \in AuditSummaries :
    /\ IsFinite(s.ratio)
    /\ ReceivedSum > 0 => s.ratio = Rat(DoneSum, ReceivedSum)

\* what the amount-based variant alone satisfies
C5_RatioByAmount ==
  "auditByAmount" \in applied =>
    /\ IsFinite(auditSummary.ratio)
    /\ ReceivedSum > 0 => auditSummary.ratio = Rat(DoneSum, ReceivedSum)

\* what dataTransformers.js returns whenever there is audit data: the
\* auditsDone array as ratio, and zero amounts
C5_RatioIsArray ==
  ("audit" \in applied /\ auditReply.defined) =>
    /\ auditData.ratio = ArrayValue(auditReply.auditsDone)
    /\ auditData.doneAmount = Num(0)
    /\ auditData.receivedAmount = Num(0)
    /\ ~auditData.upToDate

\* C6: in every audit summary upToDate is true exactly when ratio >= 1.0,
\* for all inputs, those with receivedAmount equal to 0 included.
C6_UpToDate ==
  \A s \in AuditSummaries : s.upToDate <=> JsGE(s.ratio, Num(1))

\* the amount-based variant keeps C6 whenever something was received
C6_UpToDateWhenReceived ==
  ("auditByAmount" \in applied /\ ReceivedSum > 0) =>
    (auditSummary.upToDate <=> JsGE(auditSummary.ratio, Num(1)))

\* ------------------------------------------------------ malformed records
NamelessProject == [name |-> "", type |-> "project"]

\* records lacking amount, object or object.name
MalformedRecords == [amount : {Num(25), Undefined},
                     createdAt : {0},
                     object : {NoObject, NamelessProject, ProjectGo}]

InitMalformed ==
  /\ applied = {}
  /\ tz = 0
  /\ transactions \in SeqsUpTo(MalformedRecords, MaxMalformed)
  /\ xpData = NoXpData
  /\ userSkills = <<>>
  /\ skillsData = <<>>
  /\ now = 0
  /\ auditReply \in
       {NoAuditReply} \cup
       {[defined |-> TRUE, auditsDone |-> d, auditsReceived |-> r] :
          d \in {<<>>, transactions},
          r \in {<<>>} \cup {<<x>> : x \in MalformedRecords}}
  /\ auditData = NoAuditData
  /\ auditSummary = NoAuditData
  /\ ScaleIdle
  /\ ChartIdle
  /\ ProjectIdle
  /\ AppIdle

NextMalformed ==
  \/ TransformXpData
  \/ TransformSkillsData
  \/ TransformAuditData
  \/ TransformAuditDataByAmount

SpecMalformed == InitMalformed /\ [][NextMalformed]_vars

\* ---------------------------------------------------------------- claim C7
\* every amount of an audit summary is a defined number
AuditAmountsDefined(s) ==
  /\ IsFinite(s.doneAmount) /\ IsFinite(s.receivedAmount)
  /\ \A i \in 1..Len(s.history) :
       IsFinite(s.history[i].doneAmount) /\ IsFinite(s.history[i].receivedAmount)
  /\ s # NoAuditData =>
       /\ IsFinite(s.details.averageAmounts.done)
       /\ IsFinite(s.details.averageAmounts.received)
       /\ \A i \in 1..Len(s.details.byProject) :
            /\ IsFinite(s.details.byProject[i].totalAmount)
            /\ IsFinite(s.details.byProject[i].averageAmount)

\* the names that records without a name are filed under
NamesDefaulted ==
  /\ "xp" \in applied =>
       \A i \in 1..Len(xpData.byProject) :
         /\ xpData.byProject[i].project # ""
         /\ (\E j \in 1..Len(transactions) : transactions[j].object.name = "")
              => \E l \in 1..Len(xpData.byProject) :
                   xpData.byProject[l].project = "Unknown"
  /\ \A s \in AuditSummaries :
       s # NoAuditData =>
         \A i \in 1..Len(s.details.byProject) : s.details.byProject[i].name # ""

\* C7: the aggregation functions are total: for empty or malformed input
\* (records lacking amount, object or object.name) a missing name is treated
\* as "Unknown" and a missing amount as 0, so every returned total and
\* per-bucket amount is a defined number.
C7_Total ==
  /\ NamesDefaulted
  /\ "xp" \in applied =>
       /\ IsFinite(xpData.total)
       /\ \A i \in 1..Len(xpData.byDate) :
            IsFinite(xpData.byDate[i].amount)
            /\ IsFinite(xpData.byDate[i].cumulativeAmount)
       /\ \A i \in 1..Len(xpData.byProject) : IsFinite(xpData.byProject[i].amount)
  /\ "skills" \in applied =>
       \A i \in 1..Len(skillsData) : IsFinite(skillsData[i].xp)
  /\ \A s \in AuditSummaries : AuditAmountsDefined(s)

\* the audit helpers do default a missing amount to 0 and a missing name
C7_AuditHelpersTotal ==
  /\ NamesDefaulted
  /\ \A s \in AuditSummaries : AuditAmountsDefined(s)

\* ---------------------------------------------------------- scale pipeline
Coords == {5 * i : i \in -MaxCoord..MaxCoord}

Pixels == {50 * i : i \in 0..MaxPixel}

\* a domain: two numbers, two Dates, or not an array of two
Domains ==
  {[valid |-> FALSE, ends |-> <<Num(0), Num(1)>>]} \cup
  {[valid |-> TRUE, ends |-> <<Num(a), Num(b)>>] : a, b \in Coords} \cup
  {[valid |-> TRUE, ends |-> <<DateValue(a), DateValue(b)>>] :
     a, b \in {c \in Coords : c >= 0}}

\* a pixel range, ascending (x axis) or descending (y axis), or no array
Ranges ==
  {[valid |-> FALSE, ends |-> <<Num(0), Num(100)>>]} \cup
  {[valid |-> TRUE, ends |-> <<Num(a), Num(b)>>] : a, b \in Pixels}

\* the values a scale is asked to map: numbers inside and outside the
\* domain, Dates, NaN, null and undefined
ScaleValues ==
  {Num(5 * i) : i \in -(MaxCoord + 1)..(MaxCoord + 1)} \cup
  {DateValue(c) : c \in {c \in Coords : c >= 0}} \cup
  {NaN, Null, Undefined}

InitScale ==
  /\ applied = {}
  /\ tz = 0
  /\ transactions = <<>>
  /\ xpData = NoXpData
  /\ userSkills = <<>>
  /\ skillsData = <<>>
  /\ AuditIdle
  /\ ChartIdle
  /\ ProjectIdle
  /\ AppIdle
  /\ domainArg \in Domains
  /\ rangeArg \in Ranges
  /\ scale = NoScale
  /\ value = Undefined
  /\ pixel = Undefined

\* const xScale = d3ScaleLinear(xDomain, range)
BuildScale ==
  /\ applied = {}
  /\ applied' = {"scale"}
  /\ scale' = d3ScaleLinear(domainArg, rangeArg)
  /\ UNCHANGED <<appVars, chartVars, projectVars, tz, transactions, xpData, userSkills, skillsData, auditVars,
                 domainArg, rangeArg, value, pixel>>

\* xScale(v)
ApplyScale ==
  /\ "scale" \in applied
  /\ \E v \in ScaleValues :
       /\ value' = v
       /\ pixel' = Scale(scale, v)
  /\ applied' = {"scale", "mapped"}
  /\ UNCHANGED <<appVars, chartVars, projectVars, tz, transactions, xpData, userSkills, skillsData, auditVars,
                 domainArg, rangeArg, scale>>

NextScale == BuildScale \/ ApplyScale

SpecScale == InitScale /\ [][NextScale]_vars

\* ------------------------------------------------------- claims C8..C10
Mapped == "mapped" \in applied

\* the number a domain end or a value stands for
NumberOf(x) == IF x.k = "date" THEN Num(x.n) ELSE x

\* a is between b and c, ends included
Between(a, b, c) ==
  \/ JsGE(a, b) /\ JsGE(c, a)
  \/ JsGE(a, c) /\ JsGE(b, a)

\* C8: a scale over a domain [d0, d1] with d0 # d1 and a range [r0, r1] maps
\* d0 to r0, d1 to r1 and interpolates linearly in between, for every
\* numeric domain, domains whose end point is 0 or negative included.
C8_Linear ==
  (Mapped /\ domainArg.valid /\ rangeArg.valid /\ value.k = domainArg.ends[1].k) =>
    LET d0 == NumberOf(domainArg.ends[1])
        d1 == NumberOf(domainArg.ends[2])
        r0 == rangeArg.ends[1]
        r1 == rangeArg.ends[2]
        v == NumberOf(value)
    IN (d0 # d1 /\ Between(v, d0, d1)) =>
         pixel = JsAdd(r0, JsMul(JsDiv(JsSub(v, d0), JsSub(d1, d0)), JsSub(r1, r0)))

\* what the code keeps of C8: domains whose end point is not the number 0
C8_LinearNonZeroEnd ==
  (Mapped /\ domainArg.valid /\ rangeArg.valid /\ value.k = domainArg.ends[1].k) =>
    LET d0 == NumberOf(domainArg.ends[1])
        d1 == NumberOf(domainArg.ends[2])
        r0 == rangeArg.ends[1]
        r1 == rangeArg.ends[2]
        v == NumberOf(value)
    IN (d0 # d1 /\ domainArg.ends[2] # Num(0) /\ Between(v, d0, d1)) =>
         pixel = JsAdd(r0, JsMul(JsDiv(JsSub(v, d0), JsSub(d1, d0)), JsSub(r1, r0)))

\* C9: for a degenerate domain (domain[0] = domain[1]) the scale returns the
\* midpoint of the range for any input value ([0, 0] onto [0, 100] maps
\* every value to 50).
C9_Midpoint ==
  (Mapped /\ domainArg.valid /\ rangeArg.valid
     /\ domainArg.ends[1] = domainArg.ends[2]) =>
    pixel = JsDiv(JsAdd(rangeArg.ends[1], rangeArg.ends[2]), Num(2))

\* what the code does for a degenerate domain: no division by zero, the
\* width of the domain counted as 1
C9_NoDivisionByZero ==
  /\ "scale" \in applied => scale.domainDiff # Num(0)
  /\ (Mapped /\ domainArg.valid /\ domainArg.ends[1] = domainArg.ends[2]) =>
       /\ IsFinite(pixel)
       /\ (value.k \in {"num", "date"} /\ NumberOf(value) = scale.domainStart)
            => pixel = scale.range[1]

MonthKeysOf(recs) == {MonthKey(recs[i].createdAt) : i \in 1..Len(recs)}

InputMonthKeys ==
  MonthKeysOf(auditReply.auditsDone) \cup MonthKeysOf(auditReply.auditsReceived)

\* the records of one month
InMonth(recs, key) == {i \in 1..Len(recs) : MonthKey(recs[i].createdAt) = key}

\* history h has one point per month key of the reply, ascending by date,
\* each point carrying the counts and amounts of its month on both sides
MonthlyHistory(h) ==
  LET done == auditReply.auditsDone
      received == auditReply.auditsReceived
  IN /\ {h[i].month : i \in 1..Len(h)} = InputMonthKeys
     /\ \A i, j \in 1..Len(h) :
          i < j => h[i].month # h[j].month /\ h[i].date < h[j].date
     /\ \A i \in 1..Len(h) :
          /\ h[i].done = Cardinality(InMonth(done, h[i].month))
          /\ h[i].received = Cardinality(InMonth(received, h[i].month))
          /\ h[i].doneAmount =
               Num(SumOf(AmountOf(done), InMonth(done, h[i].month)))
          /\ h[i].receivedAmount =
               Num(SumOf(AmountOf(received), InMonth(received, h[i].month)))

\* C11: the monthly audit history has exactly one point per (year, month)
\* key found in the createdAt of the done or the received array, no two
\* points share a month key, the points ascend by date, and a month with
\* activity on one side only reports the other side's count and amount as 0.
C11_History ==
  \A s \in AuditSummaries : auditReply.defined => MonthlyHistory(s.history)

\* the history of the amount-based variant is such a history
C11_HistoryByAmount ==
  ("auditByAmount" \in applied /\ auditReply.defined)
    => MonthlyHistory(auditSummary.history)

\* so is the history of js/utils/auditHelpers.js when there is any record
C11_HistoryOfRecords ==
  ("audit" \in applied /\ auditReply.defined /\ InputMonthKeys # {})
    => MonthlyHistory(auditData.history)

\* js/utils/auditHelpers.js answers two empty arrays with one point, of the
\* current month
C11_PlaceholderOfNow ==
  ("audit" \in applied /\ auditReply.defined /\ InputMonthKeys = {})
    => auditData.history = <<PlaceholderMonth>>

\* ---------------------------------------------------------------- claim C12
\* there is nothing to summarise: no reply, or a reply with two empty arrays
NothingAudited ==
  auditReply.auditsDone = <<>> /\ auditReply.auditsReceived = <<>>

\* the summary of nothing: zero counts and amounts, a number as ratio, and
\* upToDate true
EmptySummary(s) ==
  /\ s.done = 0 /\ s.received = 0
  /\ s.doneAmount = Num(0) /\ s.receivedAmount = Num(0)
  /\ IsFinite(s.ratio)
  /\ s.upToDate

\* C12: the audit summary of two empty arrays, or of no audit data at all,
\* has done count 0, received count 0, amounts 0, the defined fallback ratio
\* and upToDate = true.
C12_EmptySummary ==
  NothingAudited => \A s \in AuditSummaries : EmptySummary(s)

\* the amount-based variant returns that summary, with ratio 1
C12_EmptySummaryByAmount ==
  ("auditByAmount" \in applied /\ NothingAudited)
    => EmptySummary(auditSummary) /\ auditSummary.ratio = Num(1)

\* so does dataTransformers.js when there is no audit data at all
C12_NoAuditData ==
  ("audit" \in applied /\ ~auditReply.defined)
    => EmptySummary(auditData) /\ auditData.ratio = Num(1)

\* dataTransformers.js answers two empty arrays with the empty auditsDone
\* array as ratio and upToDate false
C12_EmptyArrayAsRatio ==
  ("audit" \in applied /\ auditReply.defined /\ NothingAudited)
    => /\ auditData.ratio = ArrayValue(<<>>)
       /\ ~auditData.upToDate
       /\ auditData.done = 0 /\ auditData.received = 0

\* ------------------------------------------------------------ donut chart
\* counts of passed and of failed results
Counts == 0..MaxCount \cup {ManyResults}

DonutInputs == [passed : {Num(c) : c \in Counts}, failed : {Num(c) : c \in Counts}]

InitDonut ==
  /\ applied = {}
  /\ tz = 0
  /\ transactions = <<>>
  /\ xpData = NoXpData
  /\ userSkills = <<>>
  /\ skillsData = <<>>
  /\ AuditIdle
  /\ ScaleIdle
  /\ donutData \in DonutInputs
  /\ donut = NoDonut
  /\ extentArg = <<>>
  /\ extent = NoExtent
  /\ XpChartIdle
  /\ radar = NoRadar
  /\ ProjectIdle
  /\ AppIdle

\* createDonutChart(data, donutContainer)
CreateDonutChart ==
  /\ ~donut.built
  /\ donut' = createDonutChart(donutData)
  /\ UNCHANGED <<appVars, dataVars, donutData, extentVars, xpChartVars, radar>>

NextDonut == CreateDonutChart

SpecDonut == InitDonut /\ [][NextDonut]_vars

\* ----------------------------------------------------------- claims C13, C14
\* the angular span an element covers, in units of pi: a complete donut is
\* two circles, a path runs from its start angle to its end angle
SpanFrom(e) == IF e.class = "donut-complete" THEN Num(0) ELSE e.startAngle

SpanTo(e) == IF e.class = "donut-complete" THEN Num(2) ELSE e.endAngle

\* the elements cover the turn one after the other, without gap or overlap
OneFullTurn(drawn) ==
  /\ drawn # <<>>
  /\ SpanFrom(drawn[1]) = Num(0)
  /\ SpanTo(drawn[Len(drawn)]) = Num(2)
  /\ \A i \in 1..Len(drawn) : JsLT(SpanFrom(drawn[i]), SpanTo(drawn[i]))
  /\ \A i \in 1..(Len(drawn) - 1) : SpanFrom(drawn[i + 1]) = SpanTo(drawn[i])

\* C13: for every passed, failed >= 0 with passed + failed > 0 the angular
\* spans of the drawn segments sum to one full turn, each drawn segment
\* starting where the previous one ended and no two overlapping, also when
\* one side is above 99.9%.
C13_FullTurn ==
  (donut.built /\ JsLT(Num(0), donut.total)) => OneFullTurn(donut.drawn)

\* the spans do make one turn whenever passed is 0 or below 99.9%
C13_FullTurnBelowComplete ==
  (/\ donut.built /\ JsLT(Num(0), donut.total)
   /\ \/ donutData.passed = Num(0)
      \/ ~JsGE(donut.segments[1].percentage, CompletePercentage))
    => OneFullTurn(donut.drawn)

\* with passed at 99.9% or more and failed not 0, the complete donut of
\* passed is followed by a failed path that starts again at angle 0
C13_OverlapAboveComplete ==
  (/\ donut.built
   /\ JsGE(donut.segments[1].percentage, CompletePercentage)
   /\ donutData.failed # Num(0))
    => /\ Len(donut.drawn) = 2
       /\ donut.drawn[1].class = "donut-complete"
       /\ donut.drawn[2].class = "donut-segment"
       /\ donut.drawn[2].startAngle = Num(0)

\* a path whose arcs end where they start: its end angle is a whole number
\* of turns past its start angle
ZeroLengthArc(e) ==
  /\ e.class = "donut-segment"
  /\ LET turns == JsDiv(JsSub(e.endAngle, e.startAngle), Num(2))
     IN turns.k = "num" /\ turns.d = 1

\* one element for the whole ring, with the given value and percentage 100
SingleFullRing(drawn, v) ==
  /\ Len(drawn) = 1
  /\ drawn[1].value = v
  /\ drawn[1].percentage = Num(100)
  /\ SpanFrom(drawn[1]) = Num(0) /\ SpanTo(drawn[1]) = Num(2)
  /\ ~ZeroLengthArc(drawn[1])

\* nothing drawn, and percentages and angles that are the number 0
ZeroState(d) ==
  /\ d.drawn = <<>>
  /\ d.total = Num(0)
  /\ \A i \in 1..Len(d.segments) :
       d.segments[i].percentage = Num(0) /\ d.segments[i].angle = Num(0)

\* C14: when exactly one of passed and failed is 0 and the other positive,
\* whichever it is, the donut is a single full-ring segment with the
\* non-zero value and percentage 100, not a zero-length arc; when both are
\* 0 the result is the zero state, with no division by zero.
C14_FullRing ==
  donut.built =>
    /\ (donutData.passed # Num(0) /\ donutData.failed = Num(0))
         => SingleFullRing(donut.drawn, donutData.passed)
    /\ (donutData.passed = Num(0) /\ donutData.failed # Num(0))
         => SingleFullRing(donut.drawn, donutData.failed)
    /\ (donutData.passed = Num(0) /\ donutData.failed = Num(0))
         => ZeroState(donut)

\* the claim holds for passed alone and for two zeros
C14_FullRingOfPassed ==
  donut.built =>
    /\ (donutData.passed # Num(0) /\ donutData.failed = Num(0))
         => SingleFullRing(donut.drawn, donutData.passed)
    /\ (donutData.passed = Num(0) /\ donutData.failed = Num(0))
         => ZeroState(donut)

\* failed alone is drawn as one path from angle 0 to angle 2 pi
C14_ZeroLengthArcOfFailed ==
  (donut.built /\ donutData.passed = Num(0) /\ donutData.failed # Num(0))
    => /\ Len(donut.drawn) = 1
       /\ ZeroLengthArc(donut.drawn[1])
       /\ donut.drawn[1].startAngle = Num(0)
       /\ donut.drawn[1].endAngle = Num(2)

\* ------------------------------------------------------------- array extent
\* what an accessor returns: numbers, with missing values among them, or Dates
ExtentNumbers == {Num(c) : c \in Coords}

ExtentDates == {DateValue(c) : c \in {c \in Coords : c >= 0}}

ExtentArrays ==
  SeqsUpTo(ExtentNumbers \cup {Undefined, Null}, MaxExtentLen) \cup
  SeqsUpTo(ExtentDates, MaxExtentLen)

InitExtent ==
  /\ applied = {}
  /\ tz = 0
  /\ transactions = <<>>
  /\ xpData = NoXpData
  /\ userSkills = <<>>
  /\ skillsData = <<>>
  /\ AuditIdle
  /\ ScaleIdle
  /\ donutData = [passed |-> Num(0), failed |-> Num(0)]
  /\ donut = NoDonut
  /\ extentArg \in ExtentArrays
  /\ extent = NoExtent
  /\ XpChartIdle
  /\ radar = NoRadar
  /\ ProjectIdle
  /\ AppIdle

\* d3ArrayExtent(data, accessor)
D3ArrayExtent ==
  /\ ~extent.done
  /\ extent' = [done |-> TRUE, ends |-> d3ArrayExtent(extentArg)]
  /\ UNCHANGED <<appVars, dataVars, donutVars, extentArg, xpChartVars, radar>>

NextExtent == D3ArrayExtent

SpecExtent == InitExtent /\ [][NextExtent]_vars

\* ---------------------------------------------------------------- claim C15
\* a non-empty array of numbers
NumericArray(a) == a # <<>> /\ \A i \in 1..Len(a) : a[i].k = "num"

\* the least and the largest of the numbers of a
LeastOf(a) ==
  CHOOSE v \in {a[i] : i \in 1..Len(a)} : \A i \in 1..Len(a) : ~JsLT(a[i], v)

LargestOf(a) ==
  CHOOSE v \in {a[i] : i \in 1..Len(a)} : \A i \in 1..Len(a) : ~JsLT(v, a[i])

\* max + 5% of max, or max + 0.1 when max is 0
WithHeadroom(max) ==
  IF max.n = 0 THEN Rat(1, 10) ELSE Rat(max.n * 105, max.d * 100)

\* C15: the extent of an empty array is [0, 1]; the extent of a non-empty
\* numeric array is [min, max + 5% of max] (max + a fixed small constant when
\* max is 0), and its upper bound is strictly greater than the largest value.
C15_Headroom ==
  extent.done =>
    /\ extentArg = <<>> => extent.ends = <<Num(0), Num(1)>>
    /\ NumericArray(extentArg) =>
         /\ extent.ends[1] = LeastOf(extentArg)
         /\ extent.ends[2] = WithHeadroom(LargestOf(extentArg))
         /\ JsLT(LargestOf(extentArg), extent.ends[2])

\* the bounds the code returns are those of the claim
C15_Bounds ==
  extent.done =>
    /\ extentArg = <<>> => extent.ends = <<Num(0), Num(1)>>
    /\ NumericArray(extentArg) =>
         /\ extent.ends[1] = LeastOf(extentArg)
         /\ extent.ends[2] = WithHeadroom(LargestOf(extentArg))

\* and the upper bound leaves headroom whenever the largest value is >= 0
C15_HeadroomOfNonNegative ==
  (extent.done /\ NumericArray(extentArg) /\ LargestOf(extentArg).n >= 0)
    => JsLT(LargestOf(extentArg), extent.ends[2])

\* a negative largest value is above the upper bound
C15_NegativeAbove ==
  (extent.done /\ NumericArray(extentArg) /\ LargestOf(extentArg).n < 0)
    => JsLT(extent.ends[2], LargestOf(extentArg))

\* ---------------------------------------------------------------- XP charts
\* renderProfile, XP Line Chart (it runs once the profile data is loaded)
RenderXpLineChart ==
  /\ "xp" \in applied
  /\ lineChart.shown = "none"
  /\ lineChart' = XpLineChart(xpData.byDate)
  /\ UNCHANGED <<appVars, dataVars, donutVars, extentVars, barChart, lineSeries, radar>>

\* the line points of state.xpData.byDate under identity scales that span
\* the data: x from the first date to the last, y between 0 and the largest
\* cumulative amount, ascending or (as the y ranges of the charts) descending
BuildLineSeries ==
  /\ "xp" \in applied
  /\ ~lineSeries.built
  /\ xpData.byDate # <<>>
  /\ LET byDate == xpData.byDate
         xEnds == <<Num(byDate[1].date), Num(byDate[Len(byDate)].date)>>
         top == MathMaxOf(CumulativeAmounts(byDate), NegInf)
     IN \E yEnds \in {<<Num(0), top>>, <<top, Num(0)>>} :
          lineSeries' = LineSeries(byDate, xEnds, yEnds)
  /\ UNCHANGED <<appVars, dataVars, donutVars, extentVars, lineChart, barChart, radar>>

NextXpCharts == TransformXpData \/ RenderXpLineChart \/ BuildLineSeries

SpecXpCharts == InitXp /\ [][NextXpCharts]_vars

\* ---------------------------------------------------------------- claim C16
\* the local calendar days of the fetched transactions
DaysFetched == {CalendarDay(transactions[i].createdAt) : i \in 1..Len(transactions)}

\* C16: for every fetched data set, fewer than 2 date buckets make the
\* caller show the fallback content, and the line builder createXPLineChart
\* is invoked only with 2 buckets or more.
C16_LineNeedsTwoBuckets ==
  lineChart.shown # "none" =>
    /\ Cardinality(DaysFetched) < 2 =>
         lineChart.shown = "fallback" /\ lineChart.path = <<>>
    /\ lineChart.shown = "chart" =>
         /\ Len(lineChart.data) >= 2
         /\ Len(lineChart.path) = Cardinality(DaysFetched)

\* two transactions of one day make one bucket, and the fallback is shown
C16_Witness ==
  /\ lineChart.shown = "fallback"
  /\ Len(transactions) = 2
  /\ Len(xpData.byDate) = 1

\* ------------------------------------------------------------ XP bar chart
\* XP transactions of three projects
ProjectRecords == [amount : {Num(25), Num(50)},
                   createdAt : {0},
                   object : {ProjectGo, PiscineJs, AsciiArt}]

\* the maxBars options given to createXPBarChart
BarLimits == 1..MaxBars

InitXpBars ==
  /\ applied = {}
  /\ tz = 0
  /\ transactions \in SeqsUpTo(ProjectRecords, MaxLen)
  /\ xpData = NoXpData
  /\ userSkills = <<>>
  /\ skillsData = <<>>
  /\ AuditIdle
  /\ ScaleIdle
  /\ ChartIdle
  /\ ProjectIdle
  /\ AppIdle

\* renderProfile, XP Bar Chart
RenderXpBarChart ==
  /\ "xp" \in applied
  /\ barChart.shown = "none"
  /\ barChart' = XpBarChart(xpData.byProject)
  /\ UNCHANGED <<appVars, dataVars, donutVars, extentVars, lineChart, lineSeries, radar>>

\* createXPBarChart(state.xpData.byProject, container, {maxBars})
CreateXPBarChart ==
  /\ "xp" \in applied
  /\ barChart.shown = "none"
  /\ \E maxBars \in BarLimits :
       barChart' = [shown |-> "chart", maxBars |-> maxBars,
                    bars |-> createXPBarChart(xpData.byProject, maxBars)]
  /\ UNCHANGED <<appVars, dataVars, donutVars, extentVars, lineChart, lineSeries, radar>>

NextXpBars == TransformXpData \/ RenderXpBarChart \/ CreateXPBarChart

SpecXpBars == InitXpBars /\ [][NextXpBars]_vars

\* ---------------------------------------------------------------- claim C17
\* the project names of the fetched transactions, and a project's total
ProjectsFetched == {transactions[i].object.name : i \in 1..Len(transactions)}

TotalOf(name) ==
  SumOf(AmountOf(transactions),
        {i \in 1..Len(transactions) : transactions[i].object.name = name})

\* C17: there is one bar per category total, capped at the configurable
\* maximum (default 10), and the bars kept are the top-N categories by
\* amount: the per-project totals are sorted descending by amount and the
\* bars are exactly the first min(n, maxBars) of them.
C17_TopBars ==
  barChart.shown = "chart" =>
    LET totals == xpData.byProject
        bars == barChart.bars
        named == {bars[i].name : i \in 1..Len(bars)}
    IN /\ Len(totals) = Cardinality(ProjectsFetched)
       /\ Len(bars) = Min(Len(totals), barChart.maxBars)
       /\ \A i, j \in 1..Len(totals) :
            i < j => ~JsLT(totals[i].amount, totals[j].amount)
       /\ \A i \in 1..Len(bars) :
            /\ bars[i].name = totals[i].project
            /\ bars[i].name \in ProjectsFetched
            /\ bars[i].amount = Num(TotalOf(bars[i].name))
       /\ Cardinality(named) = Len(bars)
       /\ \A name \in ProjectsFetched \ named :
            \A i \in 1..Len(bars) : TotalOf(name) <= bars[i].amount.n
       /\ barChart.maxBars \in BarLimits \cup {DefaultMaxBars}

\* three projects, two bars: the project left out has the smallest total
C17_Witness ==
  /\ barChart.shown = "chart"
  /\ barChart.maxBars = 2
  /\ Len(xpData.byProject) = 3
  /\ Len(barChart.bars) = 2
  /\ \E name \in ProjectsFetched :
       /\ \A i \in 1..Len(barChart.bars) : barChart.bars[i].name # name
       /\ TotalOf(name) < barChart.bars[2].amount.n

\* ------------------------------------------------------------- radar chart
Exercise == [name |-> "quest-01", type |-> "exercise"]

\* the skills of the user query, as ordered by it: amount descending
RadarSkillRecords == [type : {"skill_go", "skill_js", "skill_algo"},
                      amount : {Num(40), Num(80)}]

RadarUserSkills ==
  {s \in SeqsUpTo(RadarSkillRecords, MaxRadarLen) :
     \A i \in 1..(Len(s) - 1) : ~JsLT(s[i].amount, s[i + 1].amount)}

\* XP transactions of objects of three types
RadarTransactions ==
  SeqsUpTo([amount : {Num(50)}, createdAt : {0},
            object : {ProjectGo, PiscineJs, Exercise}], MaxLen)

\* a user with skills, or one without skills and with XP transactions
InitRadar ==
  /\ applied = {}
  /\ tz = 0
  /\ xpData = NoXpData
  /\ \/ userSkills \in RadarUserSkills /\ transactions = <<>>
     \/ userSkills = <<>> /\ transactions \in RadarTransactions
  /\ skillsData = <<>>
  /\ AuditIdle
  /\ ScaleIdle
  /\ ChartIdle
  /\ ProjectIdle
  /\ AppIdle

\* renderProfile, Skills Radar Chart
RenderSkillsRadarChart ==
  /\ "fetched" \in applied
  /\ radar.shown = "none"
  /\ radar' = SkillsRadarChart(skillsData)
  /\ UNCHANGED <<appVars, dataVars, donutVars, extentVars, xpChartVars>>

NextRadar == FetchSkillsData \/ RenderSkillsRadarChart

SpecRadar == InitRadar /\ [][NextRadar]_vars

\* ---------------------------------------------------------------- claim C18
\* the skill types among the loaded skills: the categories left after the
\* caller's de-duplication
SkillTypes == {SkillType(skillsData[i]) : i \in 1..Len(skillsData)}

\* the value of a category: the greatest amount (or XP) loaded for its type
ValuesOfType(type) ==
  {IF "amount" \in DOMAIN skillsData[i] THEN skillsData[i].amount
   ELSE skillsData[i].xp :
     i \in {j \in 1..Len(skillsData) : SkillType(skillsData[j]) = type}}

CategoryValue(type) ==
  CHOOSE v \in ValuesOfType(type) : \A w \in ValuesOfType(type) : ~JsLT(v, w)

\* no polygon below 3 categories, before or after the de-duplication
NoRadarBelowThree ==
  (Len(skillsData) < 3 \/ Cardinality(SkillTypes) < 3)
    => radar.shown \in {"fallback", "placeholder"} /\ radar.points = <<>>

\* category i of n is at angle 2 pi i / n from the first axis, which points
\* up (- pi / 2), at a distance proportional to its value
PlacedAroundCentre(points) ==
  LET n == Len(points)
  IN /\ n >= 3
     /\ \A i \in 1..n :
          /\ points[i].angle = JsSub(Rat(2 * (i - 1), n), Rat(1, 2))
          /\ IsFinite(points[i].distance)
     /\ \A i, j \in 1..n :
          JsMul(points[i].distance, CategoryValue(points[j].skill))
            = JsMul(points[j].distance, CategoryValue(points[i].skill))

\* C18: with fewer than 3 categories (before or after the caller's
\* de-duplication by skill type) no radar polygon is drawn and a placeholder
\* is shown; with n >= 3 displayed categories, category i is placed at angle
\* 2 pi i / n at a distance from the centre proportional to its normalized
\* value.
C18_Radar ==
  radar.shown # "none" =>
    /\ NoRadarBelowThree
    /\ radar.shown = "chart" => PlacedAroundCentre(radar.points)

\* the guard holds for every loaded data set
C18_NoRadarBelowThree == radar.shown # "none" => NoRadarBelowThree

\* and the placement holds when the skills come from the user query
C18_PlacedFromUserSkills ==
  (radar.shown = "chart" /\ userSkills # <<>>)
    => PlacedAroundCentre(radar.points)

\* skills derived from the XP transactions have no amount: every point of
\* their radar is at distance NaN
C18_NaNFromTransactions ==
  (radar.shown = "chart" /\ userSkills = <<>>)
    => \A i \in 1..Len(radar.points) : radar.points[i].distance = NaN

\* ---------------------------------------------------------------- claim C19
\* the points are the (date, cumulativeAmount) pairs of the buckets, in order
SameAsBuckets(points, buckets) ==
  /\ Len(points) = Len(buckets)
  /\ \A i \in 1..Len(points) :
       /\ points[i].x = Num(buckets[i].date)
       /\ points[i].y = buckets[i].cumulativeAmount

\* C19: feeding the output of the aggregation by date into the line builder
\* with an identity scale (domain equal to range) yields exactly one (x, y)
\* point per bucket, in bucket order, equal to the bucket's
\* (date, cumulativeAmount).
C19_RoundTrip ==
  lineSeries.built => SameAsBuckets(lineSeries.points, xpData.byDate)

\* the round trip holds under the ascending identity scales
C19_RoundTripAscending ==
  (lineSeries.built /\ lineSeries.yEnds[1] = Num(0))
    => SameAsBuckets(lineSeries.points, xpData.byDate)

\* under the identity scale from the largest amount down to 0 there is one
\* point per bucket, in order, with the right x, and only the largest
\* amount keeps its y
C19_DescendingToZero ==
  (lineSeries.built /\ lineSeries.yEnds[2] = Num(0))
    => /\ Len(lineSeries.points) = Len(xpData.byDate)
       /\ \A i \in 1..Len(lineSeries.points) :
            /\ lineSeries.points[i].x = Num(xpData.byDate[i].date)
            /\ (lineSeries.points[i].y = xpData.byDate[i].cumulativeAmount)
                 <=> (i = Len(lineSeries.points))

\* --------------------------------------------------------- project results
\* results as the API returns them: a grade below 1, at 1, above 1, or null
\* while the project is not graded; the object is a project (as the query
\* asks) or is missing
ResultRecords == [grade : {Num(0), Num(1), Rat(3, 2), Null},
                  createdAt : {0, TicksPerDay},
                  object : {ProjectGo, NoObject}]

InitProjects ==
  /\ applied = {}
  /\ tz = 0
  /\ transactions = <<>>
  /\ xpData = NoXpData
  /\ userSkills = <<>>
  /\ skillsData = <<>>
  /\ AuditIdle
  /\ ScaleIdle
  /\ ChartIdle
  /\ results \in SeqsUpTo(ResultRecords, MaxLen)
  /\ projectResults = NoProjectResults
  /\ AppIdle

\* state.projectResults = transformProjectResults(resultsData.result)
TransformProjectResults ==
  /\ "results" \notin applied
  /\ applied' = applied \cup {"results"}
  /\ projectResults' = transformProjectResults(results)
  /\ UNCHANGED <<appVars, chartVars, tz, transactions, xpData, userSkills, skillsData,
                 auditVars, scaleVars, results>>

NextProjects == TransformProjectResults

SpecProjects == InitProjects /\ [][NextProjects]_vars

\* ---------------------------------------------------------------- claim C20
\* the results whose grade is a number not below 1
PassedResults ==
  {i \in 1..Len(results) :
     results[i].grade.k = "num" /\ results[i].grade.n >= results[i].grade.d}

\* the results of one project type
ResultsOfType(type) ==
  {i \in 1..Len(results) : StrOr(results[i].object.type, "unknown") = type}

\* passed / total * 100, and 0 for no results
RateOf(passed, total) == IF total = 0 THEN Num(0) ELSE Rat(passed * 100, total)

\* C20: total is the number of results, passed the number of results with
\* grade >= 1, failed = total - passed, successRate = passed / total * 100
\* and 0 (not NaN) when total is 0; the same holds per project type: each
\* type's passed + failed equals its total and the type totals sum to total.
C20_PassRate ==
  "results" \in applied =>
    LET p == projectResults
    IN /\ p.total = Len(results)
       /\ p.passed = Cardinality(PassedResults)
       /\ p.failed = p.total - p.passed
       /\ p.successRate = RateOf(p.passed, p.total)
       /\ \A i \in 1..Len(p.byType) :
            LET t == p.byType[i]
            IN /\ t.total = Cardinality(ResultsOfType(t.type))
               /\ t.passed = Cardinality(ResultsOfType(t.type) \cap PassedResults)
               /\ t.passed + t.failed = t.total
               /\ t.successRate = RateOf(t.passed, t.total)
       /\ \A i, j \in 1..Len(p.byType) :
            i # j => p.byType[i].type # p.byType[j].type
       /\ SumOf([i \in 1..Len(p.byType) |-> p.byType[i].total],
                1..Len(p.byType)) = p.total

\* three results of two types: one ungraded, one at grade 1, one below
C20_Witness ==
  /\ "results" \in applied
  /\ Len(results) = 3
  /\ \E i \in 1..3 : results[i].grade = Null
  /\ \E i \in 1..3 : results[i].grade = Num(1)
  /\ projectResults.passed = 1
  /\ projectResults.failed = 2
  /\ Len(projectResults.byType) = 2

\* no results: the rate is the number 0
C20_WitnessOfNone ==
  /\ "results" \in applied
  /\ results = <<>>
  /\ projectResults.successRate = Num(0)

\* ------------------------------------------- the same call at a later time
\* the wall clock moves on between two calls
TimePasses ==
  /\ applied = {"audit"}
  /\ applied' = {"audit", "later"}
  /\ now' \in NowTimes
  /\ UNCHANGED <<appVars, chartVars, projectVars, tz, transactions, xpData, userSkills,
                 skillsData, auditReply, auditData, auditSummary, scaleVars>>

\* transformAuditData(auditData) once more, with the reply of the first call
TransformAuditDataAgain ==
  /\ applied = {"audit", "later"}
  /\ applied' = {"audit", "later", "again"}
  /\ auditDataAgain' = transformAuditData(auditReply)
  /\ UNCHANGED <<chartVars, projectVars, tz, transactions, xpData, userSkills, skillsData,
                 auditVars, scaleVars, auditChartVars, routeVars, authVars, loadVars>>

NextAuditAgain == TransformAuditData \/ TimePasses \/ TransformAuditDataAgain

SpecAuditAgain == InitAudit /\ [][NextAuditAgain]_vars

\* ---------------------------------------------------------------- claim C21
CalledAgain == "again" \in applied

\* C21: the transformation and builder functions are deterministic: two
\* calls with equal inputs made at different times, for example in
\* different calendar months, return equal results, also for empty audit
\* inputs; no result depends on the wall clock.
C21_Deterministic ==
  CalledAgain => auditDataAgain = auditData

\* the two results are equal whenever the reply holds a record, or is
\* no reply at all
C21_DeterministicOfRecords ==
  (CalledAgain /\ (InputMonthKeys # {} \/ ~auditReply.defined))
    => auditDataAgain = auditData

\* of two empty arrays the later call returns the point of its own month,
\* and all the rest as before
C21_PlaceholderOfLaterMonth ==
  (CalledAgain /\ auditReply.defined /\ InputMonthKeys = {})
    => /\ auditDataAgain.history = <<PlaceholderMonth>>
       /\ [auditDataAgain EXCEPT !.history = auditData.history] = auditData
       /\ (auditDataAgain = auditData
             <=> MonthKey(now) = auditData.history[1].month)

\* ------------------------------------------------------------ audit charts
\* a reply with one audit done in each of MonthsAudited months
LongReply ==
  [defined |-> TRUE,
   auditsDone |-> [i \in 1..MonthsAudited |->
                     [amount |-> Num(25), createdAt |-> (i - 1) * TicksPerMonth,
                      object |-> ProjectGo]],
   auditsReceived |-> <<>>]

InitAuditCharts ==
  /\ applied = {}
  /\ tz = 0
  /\ transactions = <<>>
  /\ xpData = NoXpData
  /\ userSkills = <<>>
  /\ skillsData = <<>>
  /\ now \in NowTimes
  /\ auditReply \in AuditReplies \cup {LongReply}
  /\ auditData = NoAuditData
  /\ auditSummary = NoAuditData
  /\ ScaleIdle
  /\ ChartIdle
  /\ ProjectIdle
  /\ AppIdle

\* renderProfile, Audits tab: the ratio chart of state.auditData.history or
\* the fallback, then the comparison chart of state.auditData, which sorts
\* state.auditData.history where it is
RenderAuditCharts ==
  /\ applied = {"audit"}
  /\ applied' = {"audit", "charts"}
  /\ ratioChart' = IF Len(auditData.history) > 0
                   THEN createAuditRatioChart(auditData.history)
                   ELSE [shown |-> "fallback", data |-> <<>>]
  /\ LET chart == createAuditComparisonChart(auditData)
     IN /\ comparisonChart' = [shown |-> chart.shown, bars |-> chart.bars]
        /\ auditData' = [auditData EXCEPT !.history = chart.history]
  /\ UNCHANGED <<chartVars, projectVars, tz, transactions, xpData, userSkills,
                 skillsData, now, auditReply, auditSummary, scaleVars,
                 auditDataAgain, routeVars, authVars, loadVars>>

NextAuditCharts == TransformAuditData \/ RenderAuditCharts

SpecAuditCharts == InitAuditCharts /\ [][NextAuditCharts]_vars

\* ---------------------------------------------------------------- claim C22
ChartsDrawn == "charts" \in applied

\* h ascends by date
AscendingByDate(h) == \A i, j \in 1..Len(h) : i < j => h[i].date < h[j].date

\* C22: derived data is never mutated in place after construction: once the
\* audit summary is built, no chart-building call changes it, and the
\* audit history given to createAuditRatioChart and createAuditComparisonChart
\* still holds the same elements in the same ascending order.
C22_NeverMutated ==
  [][auditData # NoAuditData => auditData' = auditData]_vars

\* the history is built ascending, the ratio chart draws it so and the
\* comparison chart keeps its elements
C22_SameElements ==
  /\ applied = {"audit"} => AscendingByDate(auditData.history)
  /\ ChartsDrawn =>
       /\ AscendingByDate(ratioChart.data)
       /\ Len(ratioChart.data) = Len(auditData.history)
       /\ [auditData EXCEPT !.history = Reverse(@)] = transformAuditData(auditReply)

\* after the comparison chart the history of the state descends by date
C22_LeftDescending ==
  ChartsDrawn => AscendingByDate(Reverse(auditData.history))

\* ----------------------------------------------------------- bar geometry
\* transactions of two projects, some of amount 0
ZeroableRecords == [amount : {Num(0), Num(25)},
                    createdAt : {0},
                    object : {ProjectGo, PiscineJs}]

\* no reply, two empty arrays, audits done only, and the long history
BarReplies ==
  {NoAuditReply, LongReply} \cup
  [defined : {TRUE},
   auditsDone : SeqsUpTo(AuditRecords, MaxAudits),
   auditsReceived : {<<>>}]

InitBars ==
  /\ applied = {}
  /\ tz = 0
  /\ transactions \in SeqsUpTo(ZeroableRecords, MaxLen)
  /\ xpData = NoXpData
  /\ userSkills = <<>>
  /\ skillsData = <<>>
  /\ now \in NowTimes
  /\ auditReply \in BarReplies
  /\ auditData = NoAuditData
  /\ auditSummary = NoAuditData
  /\ ScaleIdle
  /\ ChartIdle
  /\ ProjectIdle
  /\ AppIdle

NextBars ==
  \/ TransformXpData
  \/ RenderXpBarChart
  \/ TransformAuditData
  \/ RenderAuditCharts

SpecBars == InitBars /\ [][NextBars]_vars

\* ---------------------------------------------------------------- claim C30
\* lo <= v <= hi, v a finite number
FiniteWithin(v, lo, hi) ==
  IsFinite(v) /\ JsGE(v, Num(lo)) /\ JsGE(Num(hi), v)

\* the bars of the XP chart lie in its plot area
XpBarsInside ==
  LET d == BarDimensions
  IN \A i \in 1..Len(barChart.bars) :
       /\ FiniteWithin(barChart.bars[i].y, d.padding, d.height - d.padding)
       /\ FiniteWithin(barChart.bars[i].height, 0, d.height - 2 * d.padding)

\* so do the two bars of every month of the comparison chart
ComparisonBarsInside ==
  LET d == ComparisonDimensions
      bars == comparisonChart.bars
  IN \A i \in 1..Len(bars) :
       /\ FiniteWithin(bars[i].y, d.padding, d.height - d.padding)
       /\ FiniteWithin(bars[i].height, 0, d.height - 2 * d.padding)
       /\ FiniteWithin(bars[i].receivedY, d.padding, d.height - d.padding)
       /\ FiniteWithin(bars[i].receivedHeight, 0, d.height - 2 * d.padding)

\* every total, or every count, drawn is 0
AllAmountsZero ==
  \A i \in 1..Len(barChart.bars) : barChart.bars[i].amount = Num(0)

AllCountsZero ==
  \A i \in 1..Len(comparisonChart.bars) :
    comparisonChart.bars[i].done = 0 /\ comparisonChart.bars[i].received = 0

\* C30: for every non-empty input the bar geometry of createXPBarChart and
\* of createAuditComparisonChart is defined without division by zero: every
\* bar's y and height are finite numbers inside the plot area, also when all
\* amounts or counts are 0, as in the placeholder month of an empty history.
C30_BarsFinite ==
  /\ barChart.shown = "chart" => XpBarsInside
  /\ comparisonChart.shown = "chart" => ComparisonBarsInside

\* the bars are finite and inside the plot area whenever some amount, or
\* some count, is not 0
C30_BarsFiniteOfNonZero ==
  /\ (barChart.shown = "chart" /\ ~AllAmountsZero) => XpBarsInside
  /\ (comparisonChart.shown = "chart" /\ ~AllCountsZero) => ComparisonBarsInside

\* when all are 0 every y is NaN: 0 / 0 in both y scales
C30_NaNOfAllZero ==
  /\ (barChart.shown = "chart" /\ AllAmountsZero) =>
       \A i \in 1..Len(barChart.bars) :
         barChart.bars[i].y = NaN /\ barChart.bars[i].height = NaN
  /\ (comparisonChart.shown = "chart" /\ AllCountsZero) =>
       \A i \in 1..Len(comparisonChart.bars) :
         /\ comparisonChart.bars[i].y = NaN
         /\ comparisonChart.bars[i].receivedY = NaN
         /\ comparisonChart.bars[i].height = Num(0)

\* the placeholder month of an empty history is drawn with such bars
C30_PlaceholderBars ==
  (ChartsDrawn /\ auditReply.defined /\ InputMonthKeys = {}) =>
    /\ Len(comparisonChart.bars) = 1
    /\ comparisonChart.bars[1].y = NaN

\* ---------------------------------------------------------------- claim C24
\* local midnight of the calendar day of t
StartOfDay(t) == CalendarDay(t) * TicksPerDay - tz

\* the first record, in input order, of the calendar day of t
FirstOfDay(t) ==
  LET onDay == {i \in 1..Len(transactions) :
                  CalendarDay(transactions[i].createdAt) = CalendarDay(t)}
  IN transactions[CHOOSE i \in onDay : \A j \in onDay : i <= j]

\* C24: every DateBucket's date is truncated to its calendar day: it depends
\* only on the day of its records and carries no time of day from any record,
\* in particular not from the record of the day that comes first in the input.
C24_TruncatedToDay ==
  XpDone =>
    \A i \in 1..Len(xpData.byDate) :
      xpData.byDate[i].date = StartOfDay(xpData.byDate[i].date)

\* the date of a bucket is the createdAt, time of day included, of the first
\* record of its day in input order
C24_DateOfFirstRecord ==
  XpDone =>
    \A i \in 1..Len(xpData.byDate) :
      xpData.byDate[i].date = FirstOfDay(xpData.byDate[i].date).createdAt

\* two records of one day at different times: the bucket carries the time
\* of the one that comes first
C24_TimeOfDayKept ==
  (XpDone /\ Len(transactions) = 2
     /\ CalendarDay(transactions[1].createdAt) = CalendarDay(transactions[2].createdAt)
     /\ transactions[1].createdAt # StartOfDay(transactions[1].createdAt))
    => /\ Len(xpData.byDate) = 1
       /\ xpData.byDate[1].date = transactions[1].createdAt
       /\ xpData.byDate[1].date # StartOfDay(xpData.byDate[1].date)

\* ---------------------------------------------------------- the application
\* the hashes visited: the two routes and one that is no route
Hashes == {"#/", "#/login", "#/nowhere"}

InitApplication ==
  /\ applied = {}
  /\ tz = 0
  /\ transactions = <<>>
  /\ xpData = NoXpData
  /\ userSkills = <<>>
  /\ skillsData = <<>>
  /\ AuditIdle
  /\ ScaleIdle
  /\ ChartIdle
  /\ ProjectIdle
  /\ auditDataAgain = NoAuditData
  /\ AuditChartIdle
  /\ started = FALSE
  /\ hash \in Hashes \cup {""}
  /\ hashChanges = 0
  /\ redirects = 0
  /\ appView = "blank"
  /\ appState = NoAppState
  /\ localStorage \in {"none", "valid", "expired"}
  /\ loginButton = "none"
  /\ logins = NoLogins
  /\ components = <<>>
  /\ listeners = <<>>
  /\ loads = <<>>
  /\ profileState = NoProfileState
  /\ retries = 0

\* no hashchange event is waiting: the page has settled and takes user input
Settled == started /\ hashChanges = 0

\* navigateTo(h): a hashchange event is queued if the hash changes
NavigateTo(h) ==
  /\ hash' = h
  /\ hashChanges' = IF h = hash THEN hashChanges ELSE hashChanges + 1

\* the requests of a login form that is no longer on the page stay in flight
FormRemoved == [current |-> 0, stale |-> logins.stale + logins.current]

\* handleRoute(window.location.hash) with state.isAuthenticated = authenticated,
\* queued hashchange events remaining: a redirect, or the container is
\* cleared and the component of the route rendered; rendering the profile
\* component registers its reload-profile listener and starts its first load
HandleRoute(authenticated, queued) ==
  LET route == Routes(hash)
      redirect == RedirectOf(route, authenticated)
      c == Len(components) + 1
      w == [World EXCEPT !.components = Append(@, NewComponent)]
      loaded == LoadProfileData(w, c, localStorage)
  IN IF redirect # "none"
     THEN /\ redirects < MaxRedirects
          /\ redirects' = redirects + 1
          /\ hash' = redirect
          /\ hashChanges' = queued + 1
          /\ IF route = "login"
             THEN UNCHANGED <<appView, loginButton, logins>>
             ELSE appView' = "blank" /\ loginButton' = "none" /\ logins' = FormRemoved
          /\ UNCHANGED <<components, listeners, loads, profileState>>
     ELSE /\ hashChanges' = queued
          /\ UNCHANGED <<hash, redirects>>
          /\ logins' = FormRemoved
          /\ CASE route = "home" ->
                    /\ Len(components) < MaxComponents
                    /\ Len(loads) < MaxLoads
                    /\ appView' = "profile"
                    /\ loginButton' = "none"
                    /\ components' = loaded.components
                    /\ loads' = loaded.loads
                    /\ profileState' = loaded.profileState
                    /\ listeners' = Append(listeners, c)
               [] route = "login" ->
                    /\ appView' = "login"
                    /\ loginButton' = "enabled"
                    /\ UNCHANGED <<components, listeners, loads, profileState>>
               [] OTHER ->
                    /\ appView' = "notFound"
                    /\ loginButton' = "none"
                    /\ UNCHANGED <<components, listeners, loads, profileState>>

\* DOMContentLoaded: initApp
InitApp ==
  /\ ~started
  /\ started' = TRUE
  /\ appState' = [appState EXCEPT !.isAuthenticated = isAuthenticated(localStorage)]
  /\ IF hash = ""
     THEN /\ NavigateTo("#/")
          /\ UNCHANGED <<redirects, appView, loginButton, logins, loadVars>>
     ELSE /\ HandleRoute(isAuthenticated(localStorage), 0)
          /\ UNCHANGED retries
  /\ UNCHANGED <<dataVars, chartVars, auditDataAgain, auditChartVars, localStorage>>

\* the visitor follows a link or edits the address
Navigate ==
  /\ Settled
  /\ \E h \in Hashes : h # hash /\ NavigateTo(h)
  /\ redirects' = 0
  /\ UNCHANGED <<dataVars, chartVars, auditDataAgain, auditChartVars, started, appView,
                 authVars, loadVars>>

\* window's hashchange listener
HashChange ==
  /\ started
  /\ hashChanges > 0
  /\ HandleRoute(appState.isAuthenticated, hashChanges - 1)
  /\ UNCHANGED <<dataVars, chartVars, auditDataAgain, auditChartVars, started, appState,
                 localStorage, retries>>

\* the submit listener of the login form, with valid inputs, up to its await
SubmitLogin ==
  /\ Settled
  /\ appView = "login"
  /\ loginButton = "enabled"
  /\ logins.current + logins.stale < MaxLogins
  /\ loginButton' = "disabled"
  /\ logins' = [logins EXCEPT !.current = @ + 1]
  /\ UNCHANGED <<dataVars, chartVars, auditDataAgain, auditChartVars, routeVars, appState,
                 localStorage, loadVars>>

\* the signin reply: login() stores the token and the submit listener
\* dispatches login-success, whose listener in app.js sets the state and
\* navigates home; or login() throws and the form shows the message
LoginReply ==
  /\ \E form \in {"current", "stale"}, ok \in BOOLEAN :
       /\ logins[form] > 0
       /\ logins' = [logins EXCEPT ![form] = @ - 1]
       /\ IF ok
          THEN /\ localStorage' = "valid"
               /\ appState' = [isAuthenticated |-> TRUE, user |-> "user"]
               /\ NavigateTo("#/")
               /\ UNCHANGED loginButton
          ELSE /\ loginButton' = IF form = "current" THEN "enabled" ELSE loginButton
               /\ UNCHANGED <<localStorage, appState, hash, hashChanges>>
  /\ hashChanges' <= MaxQueued
  /\ UNCHANGED <<dataVars, chartVars, auditDataAgain, auditChartVars, started, redirects,
                 appView, loadVars>>

\* a click on the power button of the profile: the logout listener of app.js
ClickLogout ==
  /\ Settled
  /\ appView = "profile"
  /\ components[Len(components)].content = "profile"
  /\ localStorage' = "none"
  /\ appState' = [isAuthenticated |-> FALSE, user |-> "none"]
  /\ NavigateTo("#/login")
  /\ UNCHANGED <<dataVars, chartVars, auditDataAgain, auditChartVars, started, redirects,
                 appView, loginButton, logins, loadVars>>

\* the reply to the oldest open query of a load
QueryReply ==
  /\ \E l \in 1..Len(loads), outcome \in ReplyOutcomes,
        skills \in {"skilled", "unskilled"} :
       /\ loads[l].received < Len(loads[l].sent)
       /\ (loads[l].sent[loads[l].received + 1] = "user" /\ outcome = "ok")
            \/ skills = "skilled"
       /\ LET w == AfterReply(World, l, outcome, skills, localStorage)
          IN /\ components' = w.components
             /\ loads' = w.loads
             /\ profileState' = w.profileState
  /\ UNCHANGED <<dataVars, chartVars, auditDataAgain, auditChartVars, routeVars, authVars,
                 listeners, retries>>

\* a click on the retry button of the error message shown
ClickRetry ==
  /\ Settled
  /\ appView = "profile"
  /\ components[Len(components)].content = "error"
  /\ retries < MaxRetries
  /\ Len(loads) + Len(listeners) <= MaxLoads
  /\ retries' = retries + 1
  /\ LET w == DispatchReloadProfile(
                [World EXCEPT !.components[Len(components)].content = "empty"],
                listeners, localStorage)
     IN /\ components' = w.components
        /\ loads' = w.loads
        /\ profileState' = w.profileState
  /\ UNCHANGED <<dataVars, chartVars, auditDataAgain, auditChartVars, routeVars, authVars,
                 listeners>>

\* the timeout of loadingIndicator.hide() runs
HideTimeout ==
  /\ \E c \in 1..Len(components) :
       /\ components[c].hides > 0
       /\ components' = [components EXCEPT ![c].hides = @ - 1, ![c].loader = "none"]
  /\ UNCHANGED <<dataVars, chartVars, auditDataAgain, auditChartVars, routeVars, authVars,
                 listeners, loads, profileState, retries>>

NextApplication ==
  \/ InitApp
  \/ Navigate
  \/ HashChange
  \/ SubmitLogin
  \/ LoginReply
  \/ ClickLogout
  \/ QueryReply
  \/ ClickRetry
  \/ HideTimeout

SpecApplication == InitApplication /\ [][NextApplication]_vars

TypeOfApplication ==
  /\ hashChanges \in 0..(MaxQueued + 1)
  /\ appView \in {"blank", "login", "profile", "notFound"}
  /\ Len(components) <= MaxComponents
  /\ Len(loads) <= MaxLoads

\* ---------------------------------------------------------------- claim C23
\* the four queries of a profile load, in the order of the claim
QueryOrder == <<"user", "xp", "results", "audits">>

IsPrefix(s, t) == Len(s) <= Len(t) /\ s = SubSeq(t, 1, Len(s))

\* the requests of a load that have no reply yet
InFlight(load) == Len(load.sent) - load.received

C23_SkillsQueryLast ==
  \A l \in 1..Len(loads) : IsPrefix(loads[l].sent, QueryOrder \o <<"skills">>)

\* two loads can be in flight at once, each with its own open request
C23_LoadsOverlap ==
  /\ Len(loads) = 2
  /\ loads[1].component # loads[2].component
  /\ InFlight(loads[1]) = 1 /\ InFlight(loads[2]) = 1

\* ---------------------------------------------------------------- claim C25
\* the view that handleRoute renders for a hash once no redirect is pending
ViewOfHash(h) ==
  CASE Routes(h) = "home" -> "profile"
    [] Routes(h) = "login" -> "login"
    [] OTHER -> "notFound"

\* C25: once the hashchange events of a navigation, a login-success or a
\* logout have been handled, the view of the hash is rendered, the profile
\* view only with state.isAuthenticated true, the login view only with it
\* false, any hash that is no route shows the 404 view, and the navigation
\* took at most one redirect
C25_ViewOfRoute ==
  Settled =>
    /\ appView = ViewOfHash(hash)
    /\ appView = "profile" => appState.isAuthenticated
    /\ appView = "login" => ~appState.isAuthenticated
    /\ hash \notin {"#/", "#/login"} => appView = "notFound"
    /\ redirects <= 1

\* an authenticated visit to '#/login' has been redirected to the profile
C25_Witness ==
  /\ Settled
  /\ redirects = 1
  /\ hash = "#/"
  /\ appView = "profile"
  /\ appState.isAuthenticated

\* an unauthenticated visit to '#/' has been redirected to the login view
C25_RedirectedToLogin ==
  /\ Settled
  /\ redirects = 1
  /\ hash = "#/login"
  /\ appView = "login"
  /\ ~appState.isAuthenticated

\* between a login-success and its hashchange event the login view is still
\* on the page although state.isAuthenticated is already true
C25_LoginViewBeforeHashChange ==
  /\ ~Settled
  /\ appView = "login"
  /\ appState.isAuthenticated

\* ---------------------------------------------------------------- claim C29
\* C29: state.isAuthenticated of app.js is true only while a token is stored
\* in localStorage
C29_TokenStored ==
  appState.isAuthenticated => localStorage # "none"

\* a login has succeeded: the token is stored and login-success has set the
\* flag and the user
C29_Witness ==
  /\ appState.isAuthenticated
  /\ appState.user = "user"
  /\ localStorage = "valid"

\* the flag is raised after the start only in a step that leaves a token
\* stored, and nothing but a successful login stores one
C29_LoginStoresToken ==
  [][/\ (started /\ ~appState.isAuthenticated /\ appState'.isAuthenticated)
          => localStorage' = "valid"
     /\ (localStorage' # localStorage /\ localStorage' # "none")
          => (localStorage' = "valid" /\ appState'.isAuthenticated)]_vars

\* a failed login reply stores nothing and leaves the flag and the hash alone
C29_FailedLogin ==
  [][(logins' # logins /\ logins'.current + logins'.stale < logins.current + logins.stale
        /\ ~appState'.isAuthenticated)
       => UNCHANGED <<localStorage, appState, hash, hashChanges>>]_vars

\* the step that lowers the flag removes the token, clears state.user and
\* sets the hash to '#/login'
C29_LogoutClears ==
  [][(appState.isAuthenticated /\ ~appState'.isAuthenticated)
       => /\ localStorage' = "none"
          /\ appState'.user = "none"
          /\ hash' = "#/login"]_vars

\* a visitor has logged out of a profile that was rendered
C29_LoggedOut ==
  /\ Settled
  /\ Len(components) > 0
  /\ ~appState.isAuthenticated
  /\ localStorage = "none"
  /\ appView = "login"

\* ---------------------------------------------------------------- claim C27
\* C27: at any time at most one reload-profile listener is registered on the
\* document
C27_OneListener ==
  Len(listeners) <= 1

\* every registered listener starts a load of its own when reload-profile is
\* dispatched by a click on the retry button
C27_OneLoadPerListener ==
  [][(retries' = retries + 1 /\ localStorage # "none")
       => Len(loads') = Len(loads) + Len(listeners)]_vars

\* with the single listener of the first rendering a click starts one load
C27_OneLoadOfOneListener ==
  [][(retries' = retries + 1 /\ localStorage # "none" /\ Len(listeners) = 1)
       => Len(loads') = Len(loads) + 1]_vars

\* the listeners are never removed: every profile component rendered so far
\* has its own
C27_ListenerOfEveryComponent ==
  listeners = [c \in 1..Len(components) |-> c]

\* one click on retry has started a load in each of two profile components,
\* one of them no longer on the page
C27_TwoLoadsOfOneClick ==
  /\ retries = 1
  /\ Len(listeners) = 2
  /\ Len(loads) = 2
  /\ loads[1].component # loads[2].component
  /\ components[2].content = "empty"

\* ---------------------------------------------------------------- claim C28
\* the loads in flight that belong to profile component c
LoadsOf(c) == {l \in 1..Len(loads) : loads[l].component = c}

\* C28: while a load is in flight the loading indicator of its component is
\* displayed
C28_ShownWhileLoading ==
  \A l \in 1..Len(loads) : components[loads[l].component].loader = "flex"

\* the indicator is hidden once no load of its component is in flight and
\* no timeout of hide() is pending
C28_HiddenAfterLoad ==
  \A c \in 1..Len(components) :
    (LoadsOf(c) = {} /\ components[c].hides = 0) => components[c].loader = "none"

\* every load that ends schedules one timeout, and show() cancels none
C28_HideScheduled ==
  [][\A c \in 1..Len(components) :
       (LoadsOf(c) # {} /\ LoadsOf(c)' = {}) => components'[c].hides = components[c].hides + 1]_vars

\* the only profile component ever rendered has a load in flight and its
\* indicator has been hidden by the timeout of the load before it
C28_HiddenByEarlierTimeout ==
  /\ Len(components) = 1
  /\ retries > 0
  /\ LoadsOf(1) # {}
  /\ components[1].loader = "none"
  /\ components[1].hides = 0

\* ---------------------------------------------------------------- claim C26
\* the latest load of component c has ended, with a failure or without one
Failed(c) == components[c].thrown \notin {"none", "pending"}

Succeeded(c) == components[c].thrown = "none"

\* C26: a component whose latest load failed shows the error message, and
\* one whose latest load succeeded shows the profile
C26_ViewOfOutcome ==
  \A c \in 1..Len(components) :
    /\ Failed(c) => components[c].content = "error"
    /\ Succeeded(c) => components[c].content = "profile"

\* the error message is shown in place of the profile after a failed load
C26_ErrorViewOfFailure ==
  \A c \in 1..Len(components) :
    Failed(c) => components[c].content = "error"

\* the step in which a load fails leaves its message in state.error and
\* state.isLoading false, unless a listener that runs later in the same
\* dispatch starts the next load
C26_FailureRecorded ==
  [][\A c \in 1..Len(components) :
       (components[c].thrown = "pending" /\ Failed(c)' /\ Len(loads') <= Len(loads))
         => /\ profileState'.error = components'[c].thrown
            /\ ~profileState'.isLoading]_vars

\* a load that succeeds renders the profile and leaves state.error clear if
\* no other load has failed since it started
C26_ProfileOfSuccess ==
  [][\A c \in 1..Len(components) :
       (components[c].thrown = "pending" /\ Succeeded(c)' /\ profileState.error = "none")
         => /\ components'[c].content = "profile"
            /\ profileState'.error = "none"
            /\ ~profileState'.isLoading]_vars

\* a retry after a failure has succeeded and rendered the profile
C26_RetrySucceeded ==
  /\ retries > 0
  /\ Len(components) = 1
  /\ Succeeded(1)
  /\ components[1].content = "profile"
  /\ profileState.error = "none"

\* every query of the load of the component on the page succeeded, and the
\* error message of the load of an earlier component is shown
C26_ErrorOfAnotherLoad ==
  /\ Len(components) = 2
  /\ retries = 0
  /\ Succeeded(2)
  /\ Failed(1)
  /\ components[2].content = "error"

====
